---- MODULE Spec2Model ----
(***************************************************************************)
(* Model of the ethoko core: build-info normalisation, the local storage   *)
(* provider, and the push / pull orchestration of the CLI client.          *)
(*                                                                         *)
(* Every `await` of the TypeScript code is one step of the model, so that  *)
(* concurrent calls interleave exactly where the event loop (or another    *)
(* process working on the same storage directory) can interleave them.     *)
(***************************************************************************)
EXTENDS Integers, Sequences, FiniteSets, TLC

(***************************************************************************)
(* Bounds of the model.                                                    *)
(***************************************************************************)
\* total number of push / pull calls issued in one behaviour
MaxCalls == 2
\* number of files the walk of a forge artifacts folder yields at most
MaxWalk == 2

Pushers == {"w1", "w2"}
Projects == {"p1"}
NoTag == ""
Tags == {"t1"}

(***************************************************************************)
(* Paths.  A path is [pre, stem, ext]: `pre` is the leading "/" or "./"    *)
(* (or nothing), `ext` the extension after the stem.                       *)
(***************************************************************************)
Path(pre, stem, ext) == [pre |-> pre, stem |-> stem, ext |-> ext]

\* String.endsWith(".json")
EndsWithJson(path) == path.ext \in {"json", "output.json"}

\* inputPath.replace(".json", ".output.json")
ToOutputPath(path) == IF path.ext = "json" THEN [path EXCEPT !.ext = "output.json"]
                      ELSE IF path.ext = "output.json"
                           THEN [path EXCEPT !.ext = "output.output.json"]
                           ELSE path

\* inputPath.replace(".output.json", ".json")
ToInputPath(path) == IF path.ext = "output.json" THEN [path EXCEPT !.ext = "json"]
                     ELSE path

(***************************************************************************)
(* Compiled output.  output.contracts maps sourcePath -> contractName ->   *)
(* compiled contract.                                                      *)
(***************************************************************************)
\* a per-contract file of the forge default output, as ForgeCompilerContractOutputSchema
\* sees it: `targets` is metadata.settings.compilationTarget (path -> name)
ContractFile(parses, id, targets, code, prefixed, settings, version) ==
    [parses |-> parses, id |-> id, compilationTarget |-> targets,
     abi |-> code, rawMetadata |-> code, userdoc |-> code, devdoc |-> code,
     bytecode |-> [object |-> [prefixed |-> prefixed, hex |-> code]],
     deployedBytecode |-> [object |-> [prefixed |-> prefixed, hex |-> code]],
     methodIdentifiers |-> code,
     compiler |-> version, language |-> "Solidity", settings |-> settings,
     libraries |-> [k \in {<<"L.sol", "L">>} |-> settings],
     sources |-> [s \in DOMAIN targets |-> [k \in {"keccak256"} |-> code]]]

TargetA == [s \in {"A.sol"} |-> "A"]
TargetB == [s \in {"B.sol"} |-> "B"]
TargetAB == [s \in {"A.sol", "B.sol"} |-> IF s = "A.sol" THEN "A" ELSE "B"]
NoTargets == <<>>

Strip0xPrefix(bytecode) == [bytecode EXCEPT !.prefixed = FALSE]

\* the compiled contract of output.contracts built from a forge contract file
SolcContract(contract) ==
    [abi |-> contract.abi, metadata |-> contract.rawMetadata,
     userdoc |-> contract.userdoc, devdoc |-> contract.devdoc,
     evm |-> [bytecode |-> [contract.bytecode EXCEPT
                              !.object = Strip0xPrefix(contract.bytecode.object)],
              deployedBytecode |-> [contract.deployedBytecode EXCEPT
                              !.object = Strip0xPrefix(contract.deployedBytecode.object)],
              methodIdentifiers |-> contract.methodIdentifiers]]

\* a compiled contract as the consolidated build infos hold it (bare hex)
Compiled(code) == SolcContract(ContractFile(TRUE, "", TargetA, code, FALSE, "", ""))

ContractsA == [s \in {"A.sol"} |-> [n \in {"A"} |-> Compiled("k1")]]
ContractsB == [s \in {"A.sol"} |-> [n \in {"A"} |-> Compiled("k2")]]

SolcOutput(contracts, errors) == [contracts |-> contracts, errors |-> errors]

SolcInput(settings) ==
    [language |-> "Solidity", settings |-> {settings}, libraries |-> <<>>, sources |-> <<>>]

(***************************************************************************)
(* The files the build tools left on disk.  A JSON file is                 *)
(* [type, parses, fmt, valid, id, solc, input, output]: `fmt` is its       *)
(* _format / shape as seen by the format-inference schemas, `valid` says   *)
(* whether the full schema of that format accepts it.                      *)
(***************************************************************************)
HARDHAT_V2_COMPILER_OUTPUT_FORMAT == "hh-sol-build-info-1"
HARDHAT_V3_COMPILER_INPUT_FORMAT == "hh3-sol-build-info-1"
HARDHAT_V3_COMPILER_OUTPUT_FORMAT == "hh3-sol-build-info-output-1"
FORGE_COMPILER_DEFAULT_OUTPUT_FORMAT == "forge-default-shape"
FORGE_COMPILER_OUTPUT_WITH_BUILD_INFO_OPTION_FORMAT == "forge-build-info-shape"

NoOutput == SolcOutput(<<>>, "")

JsonFile(fmt, valid, id, solc, input, output, manifest) ==
    [type |-> "file", parses |-> TRUE, fmt |-> fmt, valid |-> valid, id |-> id,
     solc |-> solc, input |-> input, output |-> output, source_id_to_path |-> manifest]

Missing == [type |-> "none", parses |-> FALSE, fmt |-> "", valid |-> FALSE, id |-> "",
            solc |-> "", input |-> SolcInput(""), output |-> NoOutput,
            source_id_to_path |-> <<>>]

NoPath == Path("", "", "")
PathA == Path("/", "a", "json")
PathB == Path("./", "b", "json")
PathC == Path("", "c", "json")
PathBad == Path("", "bad", "json")
PathNone == Path("", "none", "json")
PathTxt == Path("", "notes", "txt")
PathF == Path("", "out/build-info/f", "json")

FixtureDisk ==
    [path \in {PathA, PathB, PathC, ToOutputPath(PathC), PathBad, PathTxt, PathF} |->
       CASE path = PathA ->
              JsonFile(HARDHAT_V2_COMPILER_OUTPUT_FORMAT, TRUE, "b1", "0.8.1", SolcInput("s1"),
                       SolcOutput(ContractsA, "none"), <<>>)
         [] path = PathB ->
              JsonFile(FORGE_COMPILER_OUTPUT_WITH_BUILD_INFO_OPTION_FORMAT, TRUE, "b2",
                       "0.8.2", SolcInput("s2"), SolcOutput(ContractsA, "warning"), <<>>)
         [] path = PathC ->
              JsonFile(HARDHAT_V3_COMPILER_INPUT_FORMAT, TRUE, "b3", "0.8.1", SolcInput("s1"),
                       NoOutput, <<>>)
         [] path = ToOutputPath(PathC) ->
              JsonFile(HARDHAT_V3_COMPILER_OUTPUT_FORMAT, TRUE, "b3", "", SolcInput(""),
                       SolcOutput(ContractsB, "none"), <<>>)
         [] path = PathBad ->
              JsonFile(HARDHAT_V2_COMPILER_OUTPUT_FORMAT, FALSE, "b4", "0.8.1", SolcInput("s1"),
                       SolcOutput(ContractsB, "none"), <<>>)
         [] path = PathF ->
              JsonFile(FORGE_COMPILER_DEFAULT_OUTPUT_FORMAT, TRUE, "b5", "", SolcInput(""),
                       NoOutput,
                       [i \in {"0"} |-> "A.sol"])
         [] OTHER -> [Missing EXCEPT !.type = "file"]]

\* what the recursive walk of the artifacts folder yields, per build-info file
FixtureTree ==
    [path \in {PathF} |->
       << [path |-> Path("", "out/A.sol/A", "json"),
           file |-> ContractFile(TRUE, "0", TargetA, "k1", TRUE, "s1", "0.8.3")] >>]

PushPaths == {PathA, PathB, PathC, PathBad, PathNone}

VARIABLES
    disk,     \* path -> JSON file: the build outputs on disk
    tree,     \* build-info path -> sequence of [path, file] the artifacts walk yields
    remote,   \* the storage provider's directory: [setup, ids, tags, archive]
    push,     \* pusher -> the locals of its push call
    local,    \* the Local Cache: [ids, tags]
    pull,     \* the locals of the pull call
    calls,    \* calls issued so far
    norm,     \* the normalisation of two build outputs: [pc, r1, r2, f1, f2]
    look,     \* the locals of a lookForBuildInfoJsonFile call on a directory
    query     \* the locals of an inspect, export, list or diff call

vars == <<disk, tree, remote, push, local, pull, calls, norm, look, query>>

ReadDisk(path) == IF path \in DOMAIN disk THEN disk[path] ELSE Missing

(***************************************************************************)
(* Format inference and location of the build info (file case).            *)
(***************************************************************************)
InferSingleJsonFileFormat(json) ==
    IF json.fmt = HARDHAT_V3_COMPILER_INPUT_FORMAT THEN "hardhat-v3-input"
    ELSE IF json.fmt = HARDHAT_V3_COMPILER_OUTPUT_FORMAT THEN "hardhat-v3-output"
    ELSE IF json.fmt = FORGE_COMPILER_DEFAULT_OUTPUT_FORMAT THEN "forge-default"
    ELSE IF json.fmt = FORGE_COMPILER_OUTPUT_WITH_BUILD_INFO_OPTION_FORMAT
         THEN "forge-with-build-info-option"
    ELSE IF json.fmt = HARDHAT_V2_COMPILER_OUTPUT_FORMAT THEN "hardhat-v2"
    ELSE "unknown"

BuildInfoPath(format, path, inputPath, outputPath) ==
    [format |-> format, path |-> path, inputPath |-> inputPath, outputPath |-> outputPath]

\* the class of a thrown error: `new CliError(...)` or `new Error(...)`
CliError == "CliError"
PlainError == "Error"

Found(bip) == [ok |-> TRUE, value |-> bip, error |-> ""]
NotFound == [ok |-> FALSE, value |-> BuildInfoPath("", NoPath, NoPath, NoPath),
             error |-> CliError]

\* fs.stat + readFile + JSON.parse + format check of the matching hardhat-v3 piece
PieceIs(path, format) ==
    LET json == ReadDisk(path)
    IN  json.type = "file" /\ json.parses /\ InferSingleJsonFileFormat(json) = format

LookForBuildInfoJsonFile(inputPath) ==
    LET json == ReadDisk(inputPath)
        format == InferSingleJsonFileFormat(json)
    IN  IF json.type = "none" THEN NotFound
        ELSE IF json.type = "file" THEN
            IF ~EndsWithJson(inputPath) THEN NotFound
            ELSE IF ~json.parses THEN NotFound
            ELSE IF format = "unknown" THEN NotFound
            ELSE IF format = "hardhat-v3-input" THEN
                IF PieceIs(ToOutputPath(inputPath), "hardhat-v3-output")
                THEN Found(BuildInfoPath("hardhat-v3", NoPath, inputPath,
                                         ToOutputPath(inputPath)))
                ELSE NotFound
            ELSE IF format = "hardhat-v3-output" THEN
                IF PieceIs(ToInputPath(inputPath), "hardhat-v3-input")
                THEN Found(BuildInfoPath("hardhat-v3", NoPath, ToInputPath(inputPath),
                                         inputPath))
                ELSE NotFound
            ELSE Found(BuildInfoPath(format, inputPath, NoPath, NoPath))
        ELSE NotFound

(***************************************************************************)
(* The content id: a hash of output.contracts, modelled as an injective    *)
(* function of that structure (no collisions).                             *)
(***************************************************************************)
DeriveEthokoArtifactId(output) == [sha |-> output.contracts]

Artifact(id, originId, format, outputFormat, solc, input, output) ==
    [id |-> id,
     origin |-> [id |-> originId, format |-> format, outputFormat |-> outputFormat],
     solcLongVersion |-> solc, input |-> input, output |-> output]

\* variant: the id is derived from the output and the compiler input
EthokoArtifact_IdFromInput(originId, format, outputFormat, solc, input, output) ==
    Artifact([sha |-> <<output.contracts, input.settings, solc>>], originId, format,
             outputFormat, solc, input, output)

\* variant: the origin id is the derived id, not the id of the build info
EthokoArtifact_OriginLost(originId, format, outputFormat, solc, input, output) ==
    Artifact(DeriveEthokoArtifactId(output), "", format, outputFormat, solc, input, output)

\* the artifact of a build info: its id is derived from the output
EthokoArtifact(originId, format, outputFormat, solc, input, output) ==
    Artifact(DeriveEthokoArtifactId(output), originId, format, outputFormat, solc, input,
             output)

(***************************************************************************)
(* Reconstruction of an artifact from the scattered forge contract files.  *)
(***************************************************************************)
\* the state of the loop over the walk
ForgeStart ==
    [visited |-> <<>>, additional |-> <<>>, solc |-> "", language |-> "",
     settings |-> {}, libraries |-> <<>>, sources |-> <<>>, contracts |-> <<>>]

\* obj[key], or the empty object when the key is not there
Get(obj, key) == IF key \in DOMAIN obj THEN obj[key] ELSE <<>>

\* obj with obj[key] = value
Put(obj, key, value) == [k \in DOMAIN obj \cup {key} |-> IF k = key THEN value ELSE obj[k]]

\* { ...a, ...b }
Spread(a, b) == [k \in DOMAIN a \cup DOMAIN b |-> IF k \in DOMAIN b THEN b[k] ELSE a[k]]

RECURSIVE MergeLibraries(_, _, _)
MergeLibraries(libs, contractLibraries, keys) ==
    IF keys = {} THEN libs
    ELSE LET fq == CHOOSE k \in keys : TRUE
             next == IF fq[1] = "" \/ fq[2] = "" THEN libs
                     ELSE Put(libs, fq[1], Put(Get(libs, fq[1]), fq[2], contractLibraries[fq]))
         IN  MergeLibraries(next, contractLibraries, keys \ {fq})

RECURSIVE MergeSources(_, _, _)
MergeSources(sources, contractSources, keys) ==
    IF keys = {} THEN sources
    ELSE LET sp == CHOOSE k \in keys : TRUE
         IN  MergeSources(Put(sources, sp, Spread(Get(sources, sp), contractSources[sp])),
                          contractSources, keys \ {sp})

\* a visit that records any file whose id is in the manifest, whatever its path
ForgeVisit_AnyPath(acc, manifest, entry) ==
    LET contract == entry.file
        targets == contract.compilationTarget
        contractPath == CHOOSE s \in DOMAIN targets : TRUE
    IN  IF ~contract.parses \/ Cardinality(DOMAIN targets) # 1 THEN acc
        ELSE IF contract.id \notin DOMAIN manifest THEN acc
        ELSE [acc EXCEPT !.visited = Put(acc.visited, contract.id, contractPath),
                         !.additional = Append(acc.additional, entry.path)]

\* a visit that takes a file that does not parse as any other
ForgeVisit_Unparsed(acc, manifest, entry) ==
    LET contract == entry.file
        targets == contract.compilationTarget
        contractPath == CHOOSE s \in DOMAIN targets : TRUE
        contractName == targets[contractPath]
        id == contract.id
    IN  IF Cardinality(DOMAIN targets) # 1 THEN acc
        ELSE IF id \notin DOMAIN manifest \/ manifest[id] # contractPath THEN acc
        ELSE [visited |-> Put(acc.visited, id, contractPath),
              additional |-> Append(acc.additional, entry.path),
              solc |-> IF acc.solc = "" THEN contract.compiler ELSE acc.solc,
              language |-> IF acc.language = "" THEN contract.language ELSE acc.language,
              settings |-> IF acc.settings = {} THEN {contract.settings} ELSE acc.settings,
              libraries |-> MergeLibraries(acc.libraries, contract.libraries,
                                           DOMAIN contract.libraries),
              sources |-> MergeSources(acc.sources, contract.sources,
                                       DOMAIN contract.sources),
              contracts |-> Put(acc.contracts, contractPath,
                                Put(Get(acc.contracts, contractPath), contractName,
                                    SolcContract(contract)))]

\* one iteration of the loop over the walk: `entry` is [path, file]
ForgeVisit(acc, manifest, entry) ==
    LET contract == entry.file
        targets == contract.compilationTarget
        contractPath == CHOOSE s \in DOMAIN targets : TRUE
        contractName == targets[contractPath]
        id == contract.id
    IN  IF ~contract.parses THEN acc
        ELSE IF Cardinality(DOMAIN targets) # 1 THEN acc
        ELSE IF id \notin DOMAIN manifest \/ manifest[id] # contractPath THEN acc
        ELSE [visited |-> Put(acc.visited, id, contractPath),
              additional |-> Append(acc.additional, entry.path),
              solc |-> IF acc.solc = "" THEN contract.compiler ELSE acc.solc,
              language |-> IF acc.language = "" THEN contract.language ELSE acc.language,
              settings |-> IF acc.settings = {} THEN {contract.settings} ELSE acc.settings,
              libraries |-> MergeLibraries(acc.libraries, contract.libraries,
                                           DOMAIN contract.libraries),
              sources |-> MergeSources(acc.sources, contract.sources,
                                       DOMAIN contract.sources),
              contracts |-> Put(acc.contracts, contractPath,
                                Put(Get(acc.contracts, contractPath), contractName,
                                    SolcContract(contract)))]

RECURSIVE ForgeWalk(_, _, _)
ForgeWalk(acc, manifest, walk) ==
    IF walk = <<>> THEN acc
    ELSE ForgeWalk(ForgeVisit(acc, manifest, Head(walk)), manifest, Tail(walk))

NoArtifact ==
    Artifact(DeriveEthokoArtifactId(NoOutput), "", "", "", "", SolcInput(""), NoOutput)
Mapped(artifact, paths) ==
    [ok |-> TRUE, artifact |-> artifact, originalContentPaths |-> paths, error |-> ""]
Unmapped ==
    [ok |-> FALSE, artifact |-> NoArtifact, originalContentPaths |-> <<>>, error |-> CliError]

\* What forgeArtifactsToEthokoArtifact returns or throws.  `error` is the
\* message thrown ("" when it returns) and pathsNotVisited the pairs
\* "<path> (ID: <id>)" the message lists.
ForgeReturned(artifact, paths) ==
    [ok |-> TRUE, artifact |-> artifact, additionalArtifactsPaths |-> paths,
     error |-> "", pathsNotVisited |-> {}]
ForgeThrown(error, pairs) ==
    [ok |-> FALSE, artifact |-> NoArtifact, additionalArtifactsPaths |-> <<>>,
     error |-> error, pathsNotVisited |-> pairs]

\* the manifest entries whose id no visited file carries
PathsNotVisited(manifest, visited) ==
    {<<manifest[id], id>> : id \in DOMAIN manifest \ DOMAIN visited}

ForgeArtifactsToEthokoArtifact(forgeBuildInfo, walk) ==
    LET manifest == forgeBuildInfo.source_id_to_path
        acc == ForgeWalk(ForgeStart, manifest, walk)
        output == SolcOutput(acc.contracts, "")
        input == [language |-> acc.language, settings |-> acc.settings,
                  libraries |-> acc.libraries, sources |-> acc.sources]
    IN  IF DOMAIN manifest = {} THEN ForgeThrown("Empty build info file", {})
        ELSE IF Cardinality(DOMAIN acc.visited) # Cardinality(DOMAIN manifest)
        THEN ForgeThrown("Missing contract paths",
                         PathsNotVisited(manifest, acc.visited))
        \* EthokoArtifactSchema: solcLongVersion is a string
        ELSE ForgeReturned(EthokoArtifact(forgeBuildInfo.id,
                                          FORGE_COMPILER_DEFAULT_OUTPUT_FORMAT,
                                          "", acc.solc, input, output),
                           acc.additional)

(***************************************************************************)
(* Normalisation: the build info at `buildInfoPath`, in the format         *)
(* detected before, as an artifact plus the paths of its original files.   *)
(***************************************************************************)
\* readJsonFile succeeds
Readable(path) == ReadDisk(path).type = "file" /\ ReadDisk(path).parses

\* a mapper that does not compare the ids of the two hardhat-v3 pieces
MapBuildInfoToEthokoArtifact_IdsUnchecked(buildInfoPath) ==
    LET in == ReadDisk(buildInfoPath.inputPath)
        out == ReadDisk(buildInfoPath.outputPath)
        json == ReadDisk(buildInfoPath.path)
    IN  IF buildInfoPath.format = "hardhat-v3" THEN
            IF ~Readable(buildInfoPath.inputPath) THEN Unmapped
            ELSE IF ~(in.fmt = HARDHAT_V3_COMPILER_INPUT_FORMAT /\ in.valid) THEN Unmapped
            ELSE IF ~Readable(buildInfoPath.outputPath) THEN Unmapped
            ELSE IF ~(out.fmt = HARDHAT_V3_COMPILER_OUTPUT_FORMAT /\ out.valid) THEN Unmapped
            ELSE Mapped(EthokoArtifact(in.id, in.fmt, out.fmt, in.solc, in.input,
                                       out.output),
                        <<buildInfoPath.inputPath, buildInfoPath.outputPath>>)
        ELSE IF ~Readable(buildInfoPath.path) THEN Unmapped
        ELSE IF buildInfoPath.format = "hardhat-v2" THEN
            IF ~(json.fmt = HARDHAT_V2_COMPILER_OUTPUT_FORMAT /\ json.valid) THEN Unmapped
            ELSE Mapped(EthokoArtifact(json.id, json.fmt, "", json.solc, json.input,
                                       json.output),
                        <<buildInfoPath.path>>)
        ELSE IF buildInfoPath.format = "forge-with-build-info-option" THEN
            IF ~(json.fmt = FORGE_COMPILER_OUTPUT_WITH_BUILD_INFO_OPTION_FORMAT /\ json.valid)
            THEN Unmapped
            ELSE Mapped(EthokoArtifact(json.id, json.fmt, "", json.solc, json.input,
                                       json.output),
                        <<buildInfoPath.path>>)
        ELSE IF buildInfoPath.format = "forge-default" THEN
            IF ~(json.fmt = FORGE_COMPILER_DEFAULT_OUTPUT_FORMAT /\ json.valid) THEN Unmapped
            ELSE LET mapping == ForgeArtifactsToEthokoArtifact(
                                    json, Get(tree, buildInfoPath.path))
                 IN  IF ~mapping.ok THEN Unmapped
                     ELSE Mapped(mapping.artifact,
                                 Append(mapping.additionalArtifactsPaths,
                                        buildInfoPath.path))
        ELSE Unmapped

MapBuildInfoToEthokoArtifact(buildInfoPath) ==
    LET in == ReadDisk(buildInfoPath.inputPath)
        out == ReadDisk(buildInfoPath.outputPath)
        json == ReadDisk(buildInfoPath.path)
    IN  IF buildInfoPath.format = "hardhat-v3" THEN
            IF ~Readable(buildInfoPath.inputPath) THEN Unmapped
            ELSE IF ~(in.fmt = HARDHAT_V3_COMPILER_INPUT_FORMAT /\ in.valid) THEN Unmapped
            ELSE IF ~Readable(buildInfoPath.outputPath) THEN Unmapped
            ELSE IF ~(out.fmt = HARDHAT_V3_COMPILER_OUTPUT_FORMAT /\ out.valid) THEN Unmapped
            ELSE IF in.id # out.id THEN Unmapped
            ELSE Mapped(EthokoArtifact(in.id, in.fmt, out.fmt, in.solc, in.input,
                                       out.output),
                        <<buildInfoPath.inputPath, buildInfoPath.outputPath>>)
        ELSE IF ~Readable(buildInfoPath.path) THEN Unmapped
        ELSE IF buildInfoPath.format = "hardhat-v2" THEN
            IF ~(json.fmt = HARDHAT_V2_COMPILER_OUTPUT_FORMAT /\ json.valid) THEN Unmapped
            ELSE Mapped(EthokoArtifact(json.id, json.fmt, "", json.solc, json.input,
                                       json.output),
                        <<buildInfoPath.path>>)
        ELSE IF buildInfoPath.format = "forge-with-build-info-option" THEN
            IF ~(json.fmt = FORGE_COMPILER_OUTPUT_WITH_BUILD_INFO_OPTION_FORMAT /\ json.valid)
            THEN Unmapped
            ELSE Mapped(EthokoArtifact(json.id, json.fmt, "", json.solc, json.input,
                                       json.output),
                        <<buildInfoPath.path>>)
        ELSE IF buildInfoPath.format = "forge-default" THEN
            IF ~(json.fmt = FORGE_COMPILER_DEFAULT_OUTPUT_FORMAT /\ json.valid) THEN Unmapped
            ELSE LET mapping == ForgeArtifactsToEthokoArtifact(
                                    json, Get(tree, buildInfoPath.path))
                 IN  IF ~mapping.ok THEN Unmapped
                     ELSE Mapped(mapping.artifact,
                                 Append(mapping.additionalArtifactsPaths,
                                        buildInfoPath.path))
        ELSE Unmapped

(***************************************************************************)
(* The local storage provider.  S is its directory:                        *)
(*   setup   the projects whose ids/ and tags/ folders exist               *)
(*   ids     <<project, id>>  -> the document of ids/<id>.json             *)
(*   tags    <<project, tag>> -> the document of tags/<tag>.json           *)
(*   archive <<project, id, sanitized path>> -> the original file copied   *)
(***************************************************************************)
EmptyStorage == [setup |-> {}, ids |-> <<>>, tags |-> <<>>, archive |-> <<>>]

ListTags(S, project) == {k[2] : k \in {k \in DOMAIN S.tags : k[1] = project}}
ListIds(S, project) == {k[2] : k \in {k \in DOMAIN S.ids : k[1] = project}}
HasArtifactByTag(S, project, tag) == <<project, tag>> \in DOMAIN S.tags
HasArtifactById(S, project, id) == <<project, id>> \in DOMAIN S.ids

EnsureProjectSetup(S, project) == [S EXCEPT !.setup = @ \cup {project}]

\* fs.writeFile(idFilePath, JSON.stringify(artifact))
WriteIdFile(S, project, artifact) ==
    [S EXCEPT !.ids = Put(@, <<project, artifact.id>>, artifact)]

\* variant: a tag file that is there is kept
CopyIdFileToTag_KeepExisting(S, project, id, tag) ==
    IF <<project, tag>> \in DOMAIN S.tags THEN S
    ELSE [S EXCEPT !.tags = Put(@, <<project, tag>>, S.ids[<<project, id>>])]

\* fs.copyFile(idFilePath, tagFilePath)
CopyIdFileToTag(S, project, id, tag) ==
    [S EXCEPT !.tags = Put(@, <<project, tag>>, S.ids[<<project, id>>])]

SanitizePath(filePath) ==
    IF filePath.pre \in {"/", "./"} THEN [filePath EXCEPT !.pre = ""] ELSE filePath

\* variant: every copy is archived under a name of its own
CopyOriginalContent_Versioned(S, project, id, sourcePath) ==
    [S EXCEPT !.archive =
        Put(@, <<project, id, [SanitizePath(sourcePath) EXCEPT
                                 !.pre = ToString(Cardinality(DOMAIN S.archive))]>>,
            sourcePath)]

CopyOriginalContent(S, project, id, sourcePath) ==
    [S EXCEPT !.archive = Put(@, <<project, id, SanitizePath(sourcePath)>>, sourcePath)]

RECURSIVE CopyOriginalContents(_, _, _, _)
CopyOriginalContents(S, project, id, paths) ==
    IF paths = <<>> THEN S
    ELSE CopyOriginalContents(CopyOriginalContent(S, project, id, Head(paths)),
                              project, id, Tail(paths))

\* a whole call of uploadArtifact in which no file operation fails
UploadArtifact(S, project, artifact, tag, originalContentPaths) ==
    LET s1 == WriteIdFile(EnsureProjectSetup(S, project), project, artifact)
        s2 == IF tag # NoTag THEN CopyIdFileToTag(s1, project, artifact.id, tag) ELSE s1
    IN  CopyOriginalContents(s2, project, artifact.id, originalContentPaths)

\* what listTags / listIds and the resolution of every tag show of S
Listing(S) == [ids |-> DOMAIN S.ids, tags |-> [k \in DOMAIN S.tags |-> S.tags[k].id]]

(***************************************************************************)
(* push.  The locals of one call:                                          *)
(*   pc          where the call stands (the await it is suspended at)      *)
(*   located     the BuildInfoPath found by step 1 (a set: empty = none)   *)
(*   art, orig   the artifact and original content paths of step 2         *)
(*   tagFound    what hasArtifactByTag answered                            *)
(*   ret         the id returned                                           *)
(* and, to observe the call from outside:                                  *)
(*   no          the number of the call (calls are numbered as issued)     *)
(*   existed     the tag existed on the storage when push was called       *)
(*   uploads     calls of uploadArtifact made                              *)
(*   writes      file operations of uploadArtifact completed               *)
(*   dirty       a step of this call changed what the storage lists        *)
(***************************************************************************)
IdlePush ==
    [pc |-> "idle", path |-> NoPath, project |-> "", tag |-> NoTag, force |-> FALSE,
     located |-> {}, art |-> {}, orig |-> <<>>, next |-> 1, tagFound |-> "unchecked",
     err |-> "", errClass |-> "", ret |-> {}, no |-> 0, existed |-> FALSE, uploads |-> 0, writes |-> 0,
     dirty |-> FALSE]

Returned(p) == push[p].pc \in {"idle", "done", "failed"}
TheArt(p) == CHOOSE a \in push[p].art : TRUE

Throw(p, err, class) ==
    push' = [push EXCEPT ![p].pc = "failed", ![p].err = err, ![p].errClass = class]

\* the pusher that issues the next call: of those that returned, the one whose last
\* call is the oldest (which of the free clients calls makes no difference)
NextPusher ==
    CHOOSE p \in Pushers :
        Returned(p) /\ \A q \in Pushers : Returned(q) => push[p].no <= push[q].no

PushCall(p) ==
    /\ Returned(p)
    /\ p = NextPusher
    /\ calls < MaxCalls
    /\ \E path \in PushPaths, project \in Projects, tag \in Tags \cup {NoTag},
          force \in BOOLEAN :
         \* opts.force is read in the tag check only: without a tag one value is enough
         /\ tag = NoTag => ~force
         /\ push' = [push EXCEPT ![p] =
                       [IdlePush EXCEPT !.pc = "locate", !.path = path, !.project = project,
                                        !.tag = tag, !.force = force, !.no = calls + 1,
                                        !.existed = tag # NoTag
                                                    /\ HasArtifactByTag(remote, project, tag)]]
    /\ calls' = calls + 1
    /\ UNCHANGED <<disk, tree, remote, local, pull, norm, look, query>>

\* Step 1: look for the compilation artifact
PushLocate(p) ==
    /\ push[p].pc = "locate"
    /\ LET found == LookForBuildInfoJsonFile(push[p].path)
       IN  IF found.ok
           THEN push' = [push EXCEPT ![p].pc = "normalize", ![p].located = {found.value}]
           ELSE Throw(p, "locate", found.error)
    /\ UNCHANGED <<disk, tree, remote, local, pull, calls, norm, look, query>>

\* Step 2: parse the compilation artifact
PushNormalize(p) ==
    /\ push[p].pc = "normalize"
    /\ LET mapped == MapBuildInfoToEthokoArtifact(CHOOSE b \in push[p].located : TRUE)
       IN  IF mapped.ok
           THEN push' = [push EXCEPT ![p].pc = "checkTag", ![p].art = {mapped.artifact},
                                     ![p].orig = mapped.originalContentPaths]
           ELSE Throw(p, "normalize", mapped.error)
    /\ UNCHANGED <<disk, tree, remote, local, pull, calls, norm, look, query>>

\* variant: an existing tag does not stop the push
PushCheckTag_NoGate(p) ==
    /\ push[p].pc = "checkTag"
    /\ IF push[p].tag = NoTag
       THEN push' = [push EXCEPT ![p].pc = "ensure", ![p].uploads = @ + 1]
       ELSE push' = [push EXCEPT ![p].pc = "ensure", ![p].uploads = @ + 1,
                                 ![p].tagFound =
                                    IF HasArtifactByTag(remote, push[p].project, push[p].tag)
                                    THEN "present" ELSE "absent"]
    /\ UNCHANGED <<disk, tree, remote, local, pull, calls, norm, look, query>>

\* variant: an existing tag stops the push, force or not
PushCheckTag_ForceIgnored(p) ==
    /\ push[p].pc = "checkTag"
    /\ IF push[p].tag = NoTag
       THEN push' = [push EXCEPT ![p].pc = "ensure", ![p].uploads = @ + 1]
       ELSE IF HasArtifactByTag(remote, push[p].project, push[p].tag)
            THEN push' = [push EXCEPT ![p].pc = "failed", ![p].err = "exists",
                                      ![p].tagFound = "present"]
            ELSE push' = [push EXCEPT ![p].pc = "ensure", ![p].tagFound = "absent",
                                      ![p].uploads = @ + 1]
    /\ UNCHANGED <<disk, tree, remote, local, pull, calls, norm, look, query>>

\* Step 3: check if the tag exists; when the push goes on, uploadArtifact is called
PushCheckTag(p) ==
    /\ push[p].pc = "checkTag"
    /\ IF push[p].tag = NoTag
       THEN push' = [push EXCEPT ![p].pc = "ensure", ![p].uploads = @ + 1]
       ELSE IF HasArtifactByTag(remote, push[p].project, push[p].tag)
            THEN IF ~push[p].force
                 THEN push' = [push EXCEPT ![p].pc = "failed", ![p].err = "exists",
                                           ![p].errClass = CliError,
                                           ![p].tagFound = "present"]
                 ELSE push' = [push EXCEPT ![p].pc = "ensure", ![p].tagFound = "present",
                                           ![p].uploads = @ + 1]
            ELSE push' = [push EXCEPT ![p].pc = "ensure", ![p].tagFound = "absent",
                                      ![p].uploads = @ + 1]
    /\ UNCHANGED <<disk, tree, remote, local, pull, calls, norm, look, query>>

\* variant: a failed check is taken for "no such tag"
PushCheckTagFails_Swallowed(p) ==
    /\ push[p].pc = "checkTag"
    /\ push[p].tag # NoTag
    /\ push' = [push EXCEPT ![p].pc = "ensure", ![p].uploads = @ + 1]
    /\ UNCHANGED <<disk, tree, remote, local, pull, calls, norm, look, query>>

\* hasArtifactByTag rejects (the storage cannot be reached)
PushCheckTagFails(p) ==
    /\ push[p].pc = "checkTag"
    /\ push[p].tag # NoTag
    /\ Throw(p, "check", CliError)
    /\ UNCHANGED <<disk, tree, remote, local, pull, calls, norm, look, query>>

\* a step of uploadArtifact that takes the storage from `remote` to S
UploadStep(p, S, pc) ==
    /\ remote' = S
    /\ push' = [push EXCEPT ![p].pc = pc, ![p].writes = @ + 1,
                            ![p].dirty = @ \/ Listing(S) # Listing(remote)]
    /\ UNCHANGED <<disk, tree, local, pull, calls, norm, look, query>>

UploadEnsure(p) ==
    /\ push[p].pc = "ensure"
    /\ UploadStep(p, EnsureProjectSetup(remote, push[p].project), "writeId")

UploadWriteId(p) ==
    /\ push[p].pc = "writeId"
    /\ UploadStep(p, WriteIdFile(remote, push[p].project, TheArt(p)),
                  IF push[p].tag # NoTag THEN "copyTag" ELSE "copyOriginal")

UploadCopyTag(p) ==
    /\ push[p].pc = "copyTag"
    /\ UploadStep(p, CopyIdFileToTag(remote, push[p].project, TheArt(p).id, push[p].tag),
                  "copyOriginal")

UploadCopyOriginal(p) ==
    /\ push[p].pc = "copyOriginal"
    /\ push[p].next <= Len(push[p].orig)
    /\ remote' = CopyOriginalContent(remote, push[p].project, TheArt(p).id,
                                     push[p].orig[push[p].next])
    /\ push' = [push EXCEPT ![p].next = @ + 1, ![p].writes = @ + 1,
                            ![p].dirty = @ \/ Listing(remote') # Listing(remote)]
    /\ UNCHANGED <<disk, tree, local, pull, calls, norm, look, query>>

\* a file operation of uploadArtifact fails: push throws its CliError
UploadFails(p) ==
    /\ \/ push[p].pc \in {"ensure", "writeId", "copyTag"}
       \/ push[p].pc = "copyOriginal" /\ push[p].next <= Len(push[p].orig)
    /\ Throw(p, "upload", CliError)
    /\ UNCHANGED <<disk, tree, remote, local, pull, calls, norm, look, query>>

\* Step 4 done: push returns the id of the artifact
PushReturn(p) ==
    /\ push[p].pc = "copyOriginal"
    /\ push[p].next > Len(push[p].orig)
    /\ push' = [push EXCEPT ![p].pc = "done", ![p].ret = {TheArt(p).id}]
    /\ UNCHANGED <<disk, tree, remote, local, pull, calls, norm, look, query>>

PushStep(p) ==
    \/ PushLocate(p)
    \/ PushNormalize(p)
    \/ PushCheckTag(p)
    \/ PushCheckTagFails(p)
    \/ UploadEnsure(p)
    \/ UploadWriteId(p)
    \/ UploadCopyTag(p)
    \/ UploadCopyOriginal(p)
    \/ UploadFails(p)
    \/ PushReturn(p)

(***************************************************************************)
(* The Local Cache: the same tag / id addressing on the local disk.        *)
(***************************************************************************)
EmptyCache == [setup |-> {}, ids |-> <<>>, tags |-> <<>>]

LocalTags(L, project) == {k[2] : k \in {k \in DOMAIN L.tags : k[1] = project}}
LocalIds(L, project) == {k[2] : k \in {k \in DOMAIN L.ids : k[1] = project}}

CreateArtifactByTag(L, project, tag, content) ==
    [L EXCEPT !.tags = Put(@, <<project, tag>>, content)]
CreateArtifactById(L, project, id, content) ==
    [L EXCEPT !.ids = Put(@, <<project, id>>, content)]

(***************************************************************************)
(* pull.  `target` is the tagOrId string, held as its reading as a tag     *)
(* name and its reading as an id; NoTarget is the absent (or empty)        *)
(* argument.  tagTask / idTask hold, per target selected for download,     *)
(* where its download-and-store task stands; hadTags / hadIds observe what *)
(* the Local Cache listed when pull was called, `had` the whole Local      *)
(* Cache as it then stood, `no` the number of the call.                    *)
(***************************************************************************)
NoId == DeriveEthokoArtifactId(NoOutput)
IdA == DeriveEthokoArtifactId(SolcOutput(ContractsA, ""))
IdB == DeriveEthokoArtifactId(SolcOutput(ContractsB, ""))

\* tags and ids are both strings: TagNamedAsId is the tag whose name is the text of
\* IdA (nothing keeps a push from using the text of an id as its tag); the text of
\* every other id is no tag in use, and no other tag is the text of an id
TagNamedAsId == "text of IdA"
IdText(id) == IF id = IdA THEN TagNamedAsId ELSE "#"
TextId(tag) == IF tag = TagNamedAsId THEN IdA ELSE NoId

TagTarget(tag) == [tag |-> tag, id |-> TextId(tag)]
IdTarget(id) == [tag |-> IdText(id), id |-> id]
NoTarget == TagTarget("")

PullTargets ==
    {NoTarget, TagTarget("t1"), TagTarget("t9"),
     IdTarget(IdA), IdTarget(NoId)}

IdlePull ==
    [pc |-> "idle", project |-> "", target |-> NoTarget, force |-> FALSE,
     remoteTags |-> {}, remoteIds |-> {}, tagTask |-> <<>>, idTask |-> <<>>,
     pulledTags |-> {}, pulledIds |-> {}, failedTags |-> {}, failedIds |-> {},
     err |-> "", started |-> 0, writes |-> 0, hadTags |-> {}, hadIds |-> {}, no |-> 0,
     had |-> EmptyCache]

PullReturned == pull.pc \in {"idle", "done", "failed"}

PullCall ==
    /\ PullReturned
    /\ calls < MaxCalls
    /\ \E project \in Projects, target \in PullTargets, force \in BOOLEAN :
         pull' = [IdlePull EXCEPT !.pc = "listing", !.project = project,
                                  !.target = target, !.force = force,
                                  !.hadTags = LocalTags(local, project),
                                  !.hadIds = LocalIds(local, project),
                                  !.had = local,
                                  !.no = calls + 1]
    /\ calls' = calls + 1
    /\ UNCHANGED <<disk, tree, remote, push, local, norm, look, query>>

\* the targets of the pull: a single tag, a single id, or the whole remote listing
TagsToDownload(target, remoteTags) ==
    IF target # NoTarget
    THEN IF target.tag \in remoteTags THEN {target.tag} ELSE {}
    ELSE remoteTags

\* variant: without a target only the tags are selected
IdsToDownload_TagsOnly(target, remoteTags, remoteIds) ==
    IF target # NoTarget /\ target.tag \notin remoteTags /\ target.id \in remoteIds
    THEN {target.id} ELSE {}

IdsToDownload(target, remoteTags, remoteIds) ==
    IF target # NoTarget
    THEN IF target.tag \notin remoteTags /\ target.id \in remoteIds THEN {target.id} ELSE {}
    ELSE remoteIds

\* variant: the target is not looked up in the remote listing
TargetExists_Unchecked(target, remoteTags, remoteIds) ==
    TRUE

TargetExists(target, remoteTags, remoteIds) ==
    target = NoTarget \/ target.tag \in remoteTags \/ target.id \in remoteIds

\* the download-and-store tasks are created: every download is started
StartTasks(pl, tags, ids) ==
    IF tags = {} /\ ids = {}
    THEN [pl EXCEPT !.pc = "done"]
    ELSE [pl EXCEPT !.pc = "tasks",
                    !.tagTask = [t \in tags |-> "download"],
                    !.idTask = [i \in ids |-> "download"],
                    !.started = Cardinality(tags) + Cardinality(ids)]

\* variant: the Local Cache filter is applied whether the pull is forced or not
PullList_AlwaysFiltered ==
    /\ pull.pc = "listing"
    /\ LET remoteTags == ListTags(remote, pull.project)
           remoteIds == ListIds(remote, pull.project)
           listed == [pull EXCEPT !.remoteTags = remoteTags, !.remoteIds = remoteIds]
       IN  IF ~TargetExists(pull.target, remoteTags, remoteIds)
           THEN pull' = [listed EXCEPT !.pc = "failed", !.err = "notfound"]
           ELSE pull' = [listed EXCEPT !.pc = "localListing"]
    /\ UNCHANGED <<disk, tree, remote, push, local, calls, norm, look, query>>

\* the remote listing arrives; the targets are resolved
PullList ==
    /\ pull.pc = "listing"
    /\ LET remoteTags == ListTags(remote, pull.project)
           remoteIds == ListIds(remote, pull.project)
           listed == [pull EXCEPT !.remoteTags = remoteTags, !.remoteIds = remoteIds]
           tags == TagsToDownload(pull.target, remoteTags)
           ids == IdsToDownload(pull.target, remoteTags, remoteIds)
       IN  IF ~TargetExists(pull.target, remoteTags, remoteIds)
           THEN pull' = [listed EXCEPT !.pc = "failed", !.err = "notfound"]
           ELSE IF pull.force
                THEN pull' = StartTasks(listed, tags, ids)
                ELSE pull' = [listed EXCEPT !.pc = "localListing"]
    /\ UNCHANGED <<disk, tree, remote, push, local, calls, norm, look, query>>

PullListFails ==
    /\ pull.pc = "listing"
    /\ pull' = [pull EXCEPT !.pc = "failed", !.err = "listing"]
    /\ UNCHANGED <<disk, tree, remote, push, local, calls, norm, look, query>>

\* variant: the targets already in the Local Cache are kept
PullLocalList_Unfiltered ==
    /\ pull.pc = "localListing"
    /\ pull' = StartTasks(pull, TagsToDownload(pull.target, pull.remoteTags),
                          IdsToDownload(pull.target, pull.remoteTags, pull.remoteIds))
    /\ UNCHANGED <<disk, tree, remote, push, local, calls, norm, look, query>>

\* the local listing arrives; the targets already in the Local Cache are dropped
PullLocalList ==
    /\ pull.pc = "localListing"
    /\ LET tags == TagsToDownload(pull.target, pull.remoteTags)
                     \ LocalTags(local, pull.project)
           ids == IdsToDownload(pull.target, pull.remoteTags, pull.remoteIds)
                     \ LocalIds(local, pull.project)
       IN  pull' = StartTasks(pull, tags, ids)
    /\ UNCHANGED <<disk, tree, remote, push, local, calls, norm, look, query>>

PullLocalListFails ==
    /\ pull.pc = "localListing"
    /\ pull' = [pull EXCEPT !.pc = "failed", !.err = "localListing"]
    /\ UNCHANGED <<disk, tree, remote, push, local, calls, norm, look, query>>

\* downloadArtifactByTag resolved: createArtifactByTag is called with the stream
TagDownloaded(tag) ==
    /\ pull.pc = "tasks"
    /\ tag \in DOMAIN pull.tagTask
    /\ pull.tagTask[tag] = "download"
    /\ \/ pull' = [pull EXCEPT !.tagTask[tag] = "create"]
       \/ pull' = [pull EXCEPT !.tagTask[tag] = "failed"]
    /\ UNCHANGED <<disk, tree, remote, push, local, calls, norm, look, query>>

\* variant: the task of a tag also stores the document under its id
TagCreated_AlsoId(tag) ==
    /\ pull.pc = "tasks"
    /\ tag \in DOMAIN pull.tagTask
    /\ pull.tagTask[tag] = "create"
    /\ \/ /\ HasArtifactByTag(remote, pull.project, tag)
          /\ LET content == remote.tags[<<pull.project, tag>>]
             IN  local' = CreateArtifactById(
                              CreateArtifactByTag(local, pull.project, tag, content),
                              pull.project, content.id, content)
          /\ pull' = [pull EXCEPT !.tagTask[tag] = "done", !.writes = @ + 1]
       \/ /\ pull' = [pull EXCEPT !.tagTask[tag] = "failed"]
          /\ local' = local
    /\ UNCHANGED <<disk, tree, remote, push, calls, norm, look, query>>

\* createArtifactByTag ends: the stream of tags/<tag>.json was stored, or it failed
TagCreated(tag) ==
    /\ pull.pc = "tasks"
    /\ tag \in DOMAIN pull.tagTask
    /\ pull.tagTask[tag] = "create"
    /\ \/ /\ HasArtifactByTag(remote, pull.project, tag)
          /\ local' = CreateArtifactByTag(local, pull.project, tag,
                                          remote.tags[<<pull.project, tag>>])
          /\ pull' = [pull EXCEPT !.tagTask[tag] = "done", !.writes = @ + 1]
       \/ /\ pull' = [pull EXCEPT !.tagTask[tag] = "failed"]
          /\ local' = local
    /\ UNCHANGED <<disk, tree, remote, push, calls, norm, look, query>>

IdDownloaded(id) ==
    /\ pull.pc = "tasks"
    /\ id \in DOMAIN pull.idTask
    /\ pull.idTask[id] = "download"
    /\ \/ pull' = [pull EXCEPT !.idTask[id] = "create"]
       \/ pull' = [pull EXCEPT !.idTask[id] = "failed"]
    /\ UNCHANGED <<disk, tree, remote, push, local, calls, norm, look, query>>

IdCreated(id) ==
    /\ pull.pc = "tasks"
    /\ id \in DOMAIN pull.idTask
    /\ pull.idTask[id] = "create"
    /\ \/ /\ HasArtifactById(remote, pull.project, id)
          /\ local' = CreateArtifactById(local, pull.project, id,
                                         remote.ids[<<pull.project, id>>])
          /\ pull' = [pull EXCEPT !.idTask[id] = "done", !.writes = @ + 1]
       \/ /\ pull' = [pull EXCEPT !.idTask[id] = "failed"]
          /\ local' = local
    /\ UNCHANGED <<disk, tree, remote, push, calls, norm, look, query>>

\* variant: the tasks are joined with Promise.all, the first failure rejects the pull
PullSettle_FailFast ==
    /\ pull.pc = "tasks"
    /\ \/ /\ \E t \in DOMAIN pull.tagTask : pull.tagTask[t] = "failed"
          /\ pull' = [pull EXCEPT !.pc = "failed", !.err = "task"]
       \/ /\ \E i \in DOMAIN pull.idTask : pull.idTask[i] = "failed"
          /\ pull' = [pull EXCEPT !.pc = "failed", !.err = "task"]
       \/ /\ \A t \in DOMAIN pull.tagTask : pull.tagTask[t] = "done"
          /\ \A i \in DOMAIN pull.idTask : pull.idTask[i] = "done"
          /\ pull' = [pull EXCEPT !.pc = "done",
                                  !.pulledTags = DOMAIN pull.tagTask,
                                  !.pulledIds = DOMAIN pull.idTask]
    /\ UNCHANGED <<disk, tree, remote, push, local, calls, norm, look, query>>

\* every task has settled: the result is built
PullSettle ==
    /\ pull.pc = "tasks"
    /\ \A t \in DOMAIN pull.tagTask : pull.tagTask[t] \in {"done", "failed"}
    /\ \A i \in DOMAIN pull.idTask : pull.idTask[i] \in {"done", "failed"}
    /\ LET pulledTags == {t \in DOMAIN pull.tagTask : pull.tagTask[t] = "done"}
           pulledIds == {i \in DOMAIN pull.idTask : pull.idTask[i] = "done"}
       IN  pull' = [pull EXCEPT !.pc = "done",
                                !.pulledTags = pulledTags,
                                !.failedTags = DOMAIN pull.tagTask \ pulledTags,
                                !.pulledIds = pulledIds,
                                !.failedIds = DOMAIN pull.idTask \ pulledIds]
    /\ UNCHANGED <<disk, tree, remote, push, local, calls, norm, look, query>>

PullStep ==
    \/ PullList
    \/ PullListFails
    \/ PullLocalList
    \/ PullLocalListFails
    \/ \E tag \in DOMAIN pull.tagTask : TagDownloaded(tag) \/ TagCreated(tag)
    \/ \E id \in DOMAIN pull.idTask : IdDownloaded(id) \/ IdCreated(id)
    \/ PullSettle

(***************************************************************************)
(* Normalisation alone: two build outputs are put on disk and normalised.  *)
(* A build is [json, out, walk]: the build-info file (the input piece for  *)
(* hardhat-v3), the hardhat-v3 output piece, and what the walk of the      *)
(* forge artifacts folder yields.                                          *)
(***************************************************************************)
NormPath1 == Path("", "one/build-info/x", "json")
NormPath2 == Path("", "two/build-info/x", "json")

OriginIds == {"b1", "b2"}
Compilers == {<<"0.8.1", "s1">>, <<"0.8.2", "s2">>}
CompiledOutputs == {ContractsA, ContractsB}

ConsolidatedBuilds(fmt) ==
    {[json |-> JsonFile(fmt, valid, id, c[1], SolcInput(c[2]), SolcOutput(contracts, errors),
                        <<>>),
      out |-> Missing, walk |-> <<>>] :
        valid \in BOOLEAN, id \in OriginIds, c \in Compilers, contracts \in CompiledOutputs,
        errors \in {"none", "warning"}}

HardhatV3Builds ==
    {[json |-> JsonFile(HARDHAT_V3_COMPILER_INPUT_FORMAT, valid, id, c[1], SolcInput(c[2]),
                        NoOutput, <<>>),
      out |-> JsonFile(HARDHAT_V3_COMPILER_OUTPUT_FORMAT, TRUE, outId, "", SolcInput(""),
                       SolcOutput(contracts, "none"), <<>>),
      walk |-> <<>>] :
        valid \in BOOLEAN, id \in OriginIds, outId \in OriginIds, c \in Compilers,
        contracts \in CompiledOutputs}

ForgeEntry(stem, id, targets, code, c) ==
    [path |-> Path("", stem, "json"),
     file |-> ContractFile(TRUE, id, targets, code, TRUE, c[2], c[1])]

ForgeEntries ==
    {ForgeEntry("out/A.sol/A", "0", TargetA, "k1", c) : c \in Compilers}
    \cup {ForgeEntry("out/B.sol/B", "1", TargetB, "k1", c) : c \in Compilers}
    \cup {ForgeEntry("out/old/A.sol/A", "0", TargetA, "k2", <<"0.8.1", "s1">>),
          ForgeEntry("out/other/A.sol/A", "1", TargetA, "k1", <<"0.8.1", "s1">>),
          \* a file that does not parse, one with two targets, one with none
          [ForgeEntry("out/bad/A.sol/A", "0", TargetA, "k3", <<"0.8.2", "s2">>)
             EXCEPT !.file.parses = FALSE],
          ForgeEntry("out/two/A.sol/A", "0", TargetAB, "k3", <<"0.8.2", "s2">>),
          ForgeEntry("out/none/A.sol/A", "0", NoTargets, "k3", <<"0.8.2", "s2">>)}

Walks == UNION {[1..n -> ForgeEntries] : n \in 0..MaxWalk}

Manifests == {[i \in {"0"} |-> "A.sol"],
              [i \in {"0", "1"} |-> IF i = "0" THEN "A.sol" ELSE "B.sol"]}

ForgeDefaultBuilds ==
    {[json |-> JsonFile(FORGE_COMPILER_DEFAULT_OUTPUT_FORMAT, TRUE, id, "", SolcInput(""),
                        NoOutput, manifest),
      out |-> Missing, walk |-> walk] :
        id \in OriginIds, manifest \in Manifests, walk \in Walks}

NormBuilds ==
    ConsolidatedBuilds(HARDHAT_V2_COMPILER_OUTPUT_FORMAT)
    \cup ConsolidatedBuilds(FORGE_COMPILER_OUTPUT_WITH_BUILD_INFO_OPTION_FORMAT)
    \cup HardhatV3Builds
    \cup ForgeDefaultBuilds

\* the compiled part of a forge contract file: all but compiler and settings
CompiledPart(file) ==
    [file EXCEPT !.compiler = "", !.settings = "",
                 !.libraries = [k \in DOMAIN file.libraries |-> ""]]

\* b1 and b2 hold the same compiled output (they may differ in everything else)
SameCompiledOutput(b1, b2) ==
    /\ b1.json.fmt = b2.json.fmt
    /\ b1.json.output.contracts = b2.json.output.contracts
    /\ b1.out.output.contracts = b2.out.output.contracts
    /\ b1.json.source_id_to_path = b2.json.source_id_to_path
    /\ Len(b1.walk) = Len(b2.walk)
    /\ \A i \in 1..Len(b1.walk) :
         /\ b1.walk[i].path = b2.walk[i].path
         /\ CompiledPart(b1.walk[i].file) = CompiledPart(b2.walk[i].file)

\* the files of build b, put at `path`
BuildFiles(path, b) ==
    IF b.out.type = "file"
    THEN [q \in {path, ToOutputPath(path)} |-> IF q = path THEN b.json ELSE b.out]
    ELSE [q \in {path} |-> b.json]

\* locate, then map
Normalize(path) ==
    LET found == LookForBuildInfoJsonFile(path)
    IN  IF found.ok THEN MapBuildInfoToEthokoArtifact(found.value)
        ELSE [Unmapped EXCEPT !.error = found.error]

\* the reconstruction the mapper runs for a forge-default build at `path`
ForgeNotCalled == ForgeThrown("not called", {})
ForgeMapping(path) ==
    LET found == LookForBuildInfoJsonFile(path)
        json == ReadDisk(path)
    IN  IF /\ found.ok
           /\ found.value.format = "forge-default"
           /\ Readable(path)
           /\ json.fmt = FORGE_COMPILER_DEFAULT_OUTPUT_FORMAT /\ json.valid
        THEN ForgeArtifactsToEthokoArtifact(json, Get(tree, path))
        ELSE ForgeNotCalled

NormOff ==
    [pc |-> "off", r1 |-> Unmapped, r2 |-> Unmapped,
     f1 |-> ForgeNotCalled, f2 |-> ForgeNotCalled]

NormalizeBuilds ==
    /\ norm.pc = "start"
    /\ norm' = [pc |-> "done", r1 |-> Normalize(NormPath1), r2 |-> Normalize(NormPath2),
                f1 |-> ForgeMapping(NormPath1), f2 |-> ForgeMapping(NormPath2)]
    /\ UNCHANGED <<disk, tree, remote, push, local, pull, calls, look, query>>

(***************************************************************************)
(* Location of the build info when the input path is a directory.          *)
(* disk[path] is then [type |-> "dir", readable, entries, buildInfoReadable,*)
(* buildInfo]: what readdir yields for the directory and for its           *)
(* `build-info` sub-directory.  An entry is a Dirent plus what stat and    *)
(* readFile give for it.                                                   *)
(***************************************************************************)
\* questions the prompt asks at most in one behaviour
MaxAnswers == 2
\* entries readdir yields at most
MaxEntries == 3

Dirent(name, isFile, json, statOk, mtime, size, file) ==
    [name |-> name, isFile |-> isFile, json |-> json, statOk |-> statOk,
     mtime |-> mtime, size |-> size, file |-> file]

V2File == JsonFile(HARDHAT_V2_COMPILER_OUTPUT_FORMAT, TRUE, "b1", "0.8.1", SolcInput("s1"),
                   SolcOutput(ContractsA, "none"), <<>>)
ForgeFile == JsonFile(FORGE_COMPILER_OUTPUT_WITH_BUILD_INFO_OPTION_FORMAT, TRUE, "b2",
                      "0.8.2", SolcInput("s2"), SolcOutput(ContractsA, "warning"), <<>>)
V3InputFile == JsonFile(HARDHAT_V3_COMPILER_INPUT_FORMAT, TRUE, "b3", "0.8.1",
                        SolcInput("s1"), NoOutput, <<>>)
V3OutputFile == JsonFile(HARDHAT_V3_COMPILER_OUTPUT_FORMAT, TRUE, "b3", "", SolcInput(""),
                         SolcOutput(ContractsB, "none"), <<>>)
UnknownFile == [Missing EXCEPT !.type = "file", !.parses = TRUE]
BrokenFile == [Missing EXCEPT !.type = "file"]

BuildInfoDirent == Dirent("build-info", FALSE, FALSE, TRUE, 1, 0, Missing)

Dirents ==
    {Dirent("old.json", TRUE, TRUE, TRUE, 1, 10, V2File),
     Dirent("forge.json", TRUE, TRUE, TRUE, 2, 20, ForgeFile),
     Dirent("new.json", TRUE, TRUE, TRUE, 2, 30, V2File),
     Dirent("v3.json", TRUE, TRUE, TRUE, 1, 10, V3InputFile),
     Dirent("v3.output.json", TRUE, TRUE, TRUE, 1, 10, V3OutputFile),
     Dirent("other.json", TRUE, TRUE, TRUE, 1, 10, UnknownFile),
     Dirent("broken.json", TRUE, TRUE, TRUE, 1, 10, BrokenFile),
     Dirent("gone.json", TRUE, TRUE, FALSE, 1, 10, Missing),
     Dirent("notes.txt", TRUE, FALSE, TRUE, 2, 10, BrokenFile)}

\* readdir: each name once
Listings ==
    {l \in UNION {[1..n -> Dirents] : n \in 0..MaxEntries} :
        \A i, j \in 1..Len(l) : i # j => l[i].name # l[j].name}

Directory(readable, entries, buildInfoReadable, buildInfo) ==
    [type |-> "dir", readable |-> readable, entries |-> entries,
     buildInfoReadable |-> buildInfoReadable, buildInfo |-> buildInfo]

\* `${folder}/${name}`
JoinPath(folder, name) == [folder |-> folder, name |-> name]

LookPath == Path("", "artifacts", "")

\* what the call settles with, or the prompt it starts
LookThrown(error) == [kind |-> "thrown", error |-> error, errorClass |-> CliError,
                      value |-> NotFound.value, options |-> <<>>, ignored |-> 0]
LookReturned(format, path) ==
    [kind |-> "returned", error |-> "", errorClass |-> "",
     value |-> BuildInfoPath(format, path, NoPath, NoPath),
     options |-> <<>>, ignored |-> 0]
LookPrompt(options, ignored) ==
    [kind |-> "prompt", error |-> "", errorClass |-> "", value |-> NotFound.value,
     options |-> options, ignored |-> ignored]

\* files.sort((a, b) => b.mtime - a.mtime): stable, most recent first
RECURSIVE SortByMtime(_)
SortByMtime(files) ==
    IF files = <<>> THEN <<>>
    ELSE LET f == Head(files)
             sorted == SortByMtime(Tail(files))
             k == Cardinality({i \in 1..Len(sorted) : sorted[i].mtime > f.mtime})
         IN  SubSeq(sorted, 1, k) \o <<f>> \o SubSeq(sorted, k + 1, Len(sorted))

\* a JSON file the selection ignores: no stats, unreadable, or of unknown format
Ignored(file) ==
    \/ ~file.statOk
    \/ ~file.file.parses
    \/ InferSingleJsonFileFormat(file.file) = "unknown"

\* more than one JSON file, not in CI: the options of the prompt
SelectAmong(jsonFiles, folder) ==
    LET kept == SelectSeq(jsonFiles, LAMBDA f : ~Ignored(f))
        files == SortByMtime(kept)
        options == [i \in 1..Len(files) |->
                      [display |-> <<files[i].name, InferSingleJsonFileFormat(files[i].file),
                                     files[i].mtime, files[i].size>>,
                       value |-> BuildInfoPath(InferSingleJsonFileFormat(files[i].file),
                                               JoinPath(folder, files[i].name),
                                               NoPath, NoPath)]]
    IN  IF \E i \in 1..Len(kept) :
              InferSingleJsonFileFormat(kept[i].file)
                  \in {"hardhat-v3-input", "hardhat-v3-output"}
        THEN LookThrown("REMIND ME: not implemented yet")
        ELSE IF Len(options) = 0 THEN LookThrown("No valid JSON files found")
        ELSE LookPrompt(options, Len(jsonFiles) - Len(kept))

\* at most one JSON file
LookSingle(jsonFiles, folder) ==
    LET targetFile == jsonFiles[1]
        format == InferSingleJsonFileFormat(targetFile.file)
    IN  IF jsonFiles = <<>> THEN LookThrown("No JSON file found")
        ELSE IF ~targetFile.statOk \/ ~targetFile.file.parses
        THEN LookThrown("could not be read or is not a valid JSON file")
        ELSE IF format = "unknown" THEN LookThrown("No valid build info JSON file found")
        ELSE IF format = "hardhat-v3-input" THEN LookThrown("the output file is missing")
        ELSE IF format = "hardhat-v3-output" THEN LookThrown("the input file is missing")
        ELSE LookReturned(format, JoinPath(folder, targetFile.name))

\* a locator that prompts in CI mode too
LookInDirectory_CIIgnored(dir, isCI) ==
    LET jsonFiles == SelectSeq(dir.entries, LAMBDA e : e.isFile /\ e.json)
    IN  IF Len(jsonFiles) > 1 THEN SelectAmong(jsonFiles, LookPath)
        ELSE LookSingle(jsonFiles, LookPath)

\* lookForBuildInfoJsonFile once stat said the input path is a directory
LookInDirectory(dir, isCI) ==
    LET buildInfoDirEntry ==
            \E i \in 1..Len(dir.entries) :
                ~dir.entries[i].isFile /\ dir.entries[i].name = "build-info"
        finalEntries == IF buildInfoDirEntry THEN dir.buildInfo ELSE dir.entries
        finalFolderPath == IF buildInfoDirEntry THEN JoinPath(LookPath, "build-info")
                           ELSE LookPath
        jsonFiles == SelectSeq(finalEntries, LAMBDA e : e.isFile /\ e.json)
    IN  IF ~dir.readable THEN LookThrown("is a directory but could not be read")
        ELSE IF buildInfoDirEntry /\ ~dir.buildInfoReadable
        THEN LookThrown("The build-info directory could not be read")
        ELSE IF Len(jsonFiles) > 1 THEN
            IF isCI THEN LookThrown("Multiple JSON files found, in CI")
            ELSE SelectAmong(jsonFiles, finalFolderPath)
        ELSE LookSingle(jsonFiles, finalFolderPath)

(***************************************************************************)
(* promptUserSelection.  Each step is one callback of the event loop with  *)
(* the promise reactions it triggers: an answer delivered to the pending   *)
(* question, or the timer firing.  The promise the call returns is the     *)
(* race of the selection and of the timeout: the first to settle decides.  *)
(***************************************************************************)
NoAnswer == "none"
\* what the user types
Answers == {"1", " 2 ", "3x", "0", "9", "x"}

NaN == [nan |-> TRUE, n |-> 0]
Number(n) == [nan |-> FALSE, n |-> n]

\* parseInt(answer.trim(), 10)
ParseInt(answer) ==
    CASE answer = "1" -> Number(1)
      [] answer = " 2 " -> Number(2)
      [] answer = "3x" -> Number(3)
      [] answer = "0" -> Number(0)
      [] answer = "9" -> Number(9)
      [] OTHER -> NaN

\* an accepted selection that starts at 0
ValidSelection_FromZero(parsed, options) ==
    ~(parsed.nan \/ parsed.n < 0 \/ parsed.n > Len(options))

\* !(isNaN(parsed) || parsed < 1 || parsed > options.length)
ValidSelection(parsed, options) ==
    ~(parsed.nan \/ parsed.n < 1 \/ parsed.n > Len(options))

LookOff ==
    [pc |-> "off", isCI |-> FALSE, stopped |-> FALSE, error |-> "", errorClass |-> "",
     value |-> NotFound.value, options |-> <<>>, ignored |-> 0,
     \* promptUserSelection
     readlines |-> 0,          \* interfaces created
     closes |-> 0,             \* calls of readline.close()
     timeoutId |-> "none",     \* none, armed, cleared, fired
     isTimedOut |-> FALSE, isClosed |-> FALSE,
     selection |-> "none",     \* selectionPromise: none, asking, fulfilled, rejected
     asked |-> 0,              \* promptLinesCount
     warned |-> 0,             \* warningLinesCount
     answer |-> NoAnswer,      \* the last answer handled
     late |-> FALSE]           \* that answer was handled after the timer fired

\* the call: everything up to its return, its throw or the first question
LookCall(isCI) ==
    /\ look.pc = "idle"
    /\ ReadDisk(LookPath).type = "dir"
    /\ LET r == LookInDirectory(ReadDisk(LookPath), isCI)
       IN  look' = [look EXCEPT
                      !.pc = r.kind, !.isCI = isCI, !.error = r.error,
                      !.errorClass = r.errorClass, !.value = r.value,
                      !.options = r.options, !.ignored = r.ignored,
                      !.stopped = (r.kind = "prompt" \/ r.error \in
                                     {"REMIND ME: not implemented yet",
                                      "No valid JSON files found"}),
                      !.readlines = IF r.kind = "prompt" THEN 1 ELSE 0,
                      !.timeoutId = IF r.kind = "prompt" THEN "armed" ELSE "none",
                      !.selection = IF r.kind = "prompt" THEN "asking" ELSE "none",
                      !.asked = IF r.kind = "prompt" THEN 1 ELSE 0]
    /\ UNCHANGED <<disk, tree, remote, push, local, pull, calls, norm, query>>

\* clearTimeout, then readline.close() unless closed already
Cleared(l) ==
    [l EXCEPT !.timeoutId = IF l.timeoutId = "armed" THEN "cleared" ELSE l.timeoutId,
              !.closes = IF l.isClosed THEN l.closes ELSE l.closes + 1,
              !.isClosed = TRUE]

\* selectionPromise rejects with `new Error(...)`, timeoutPromise with a CliError
ErrorClass(error) ==
    IF error \in {"Selection was interrupted", "Failed to get selected option"}
    THEN PlainError
    ELSE CliError

\* variant: a rejection that comes after the race settled replaces its outcome
RaceRejected_Resettles(l, error) ==
    Cleared([l EXCEPT !.pc = "thrown", !.error = error, !.errorClass = ErrorClass(error)])

\* the race settles with the first promise that settles; a rejection runs
\* the catch handler
RaceFulfilled(l, value) ==
    IF l.pc = "prompt" THEN [l EXCEPT !.pc = "returned", !.value = value] ELSE l
RaceRejected(l, error) ==
    IF l.pc = "prompt"
    THEN Cleared([l EXCEPT !.pc = "thrown", !.error = error,
                           !.errorClass = ErrorClass(error)])
    ELSE l

\* readline.question resolves with `answer`.  A question still pending when
\* the interface is closed may or may not be answered: both are allowed.
PromptAnswer(answer) ==
    /\ look.selection = "asking"
    /\ look.asked <= MaxAnswers
    /\ LET parsed == ParseInt(answer)
           heard == [look EXCEPT !.answer = answer, !.late = look.isTimedOut]
           ended == Cleared(heard)
       IN  IF ~ValidSelection(parsed, look.options) THEN
               IF ~look.isTimedOut
               THEN look' = [heard EXCEPT !.warned = @ + 1, !.asked = @ + 1]
               ELSE look' = RaceRejected([ended EXCEPT !.warned = @ + 1,
                                                        !.selection = "rejected"],
                                         "Selection was interrupted")
           ELSE IF parsed.n \in DOMAIN look.options
           THEN look' = RaceFulfilled([ended EXCEPT !.selection = "fulfilled"],
                                      look.options[parsed.n].value)
           ELSE look' = RaceRejected([ended EXCEPT !.selection = "rejected"],
                                     "Failed to get selected option")
    /\ UNCHANGED <<disk, tree, remote, push, local, pull, calls, norm, query>>

\* the timer fires
PromptTimeout ==
    /\ look.timeoutId = "armed"
    /\ look' = RaceRejected(
                  [look EXCEPT !.timeoutId = "fired", !.isTimedOut = TRUE,
                               !.closes = IF look.isClosed THEN @ ELSE @ + 1,
                               !.isClosed = TRUE],
                  "User selection timed out")
    /\ UNCHANGED <<disk, tree, remote, push, local, pull, calls, norm, query>>

\* the locals of a query over the Local Cache
QueryIdle ==
    [pc |-> "idle", op |-> "", ok |-> FALSE, error |-> "", project |-> "",
     target |-> NoTarget, result |-> <<>>, rows |-> {}]
QueryThrown(q, error) == [q EXCEPT !.pc = "done", !.ok = FALSE, !.error = error]
QueryReturned(q, result) == [q EXCEPT !.pc = "done", !.ok = TRUE, !.result = result]

(***************************************************************************)
(* Specifications.                                                         *)
(*   Spec      the pushers run concurrently on one storage                 *)
(*   SpecSeq   pushes and pulls, one call at a time                        *)
(*   SpecNorm  two build outputs with the same compiled output, normalised *)
(***************************************************************************)
Init ==
    /\ disk = FixtureDisk
    /\ tree = FixtureTree
    /\ remote = EmptyStorage
    /\ push = [p \in Pushers |-> IdlePush]
    /\ local = EmptyCache
    /\ pull = IdlePull
    /\ calls = 0
    /\ norm = NormOff
    /\ look = LookOff
    /\ query = QueryIdle

Next == \E p \in Pushers : PushCall(p) \/ PushStep(p)

Spec == Init /\ [][Next]_vars

Quiet == PullReturned /\ \A p \in Pushers : Returned(p)

NextSeq ==
    \/ \E p \in Pushers : (Quiet /\ PushCall(p)) \/ PushStep(p)
    \/ (Quiet /\ PullCall)
    \/ PullStep

SpecSeq == Init /\ [][NextSeq]_vars

InitNorm ==
    /\ \E b1 \in NormBuilds :
         \E b2 \in {b \in NormBuilds : SameCompiledOutput(b1, b)} :
            /\ disk = Spread(BuildFiles(NormPath1, b1), BuildFiles(NormPath2, b2))
            /\ tree = [q \in {NormPath1, NormPath2} |->
                         IF q = NormPath1 THEN b1.walk ELSE b2.walk]
    /\ remote = EmptyStorage
    /\ push = [p \in Pushers |-> IdlePush]
    /\ local = EmptyCache
    /\ pull = IdlePull
    /\ calls = 0
    /\ norm = [NormOff EXCEPT !.pc = "start"]
    /\ look = LookOff
    /\ query = QueryIdle

NextNorm == NormalizeBuilds

SpecNorm == InitNorm /\ [][NextNorm]_vars

\* The same forge-default build normalised twice, the walk of its artifacts
\* folder yielding the same files in two orders (readdir fixes none).
Reorderings(walk) ==
    {[i \in DOMAIN walk |-> walk[f[i]]] :
        f \in {g \in [DOMAIN walk -> DOMAIN walk] :
                  \A i, j \in DOMAIN walk : g[i] = g[j] => i = j}}

\* a folder holds one file per path
DistinctPaths(walk) ==
    \A i, j \in DOMAIN walk : walk[i].path = walk[j].path => i = j

InitWalk ==
    /\ \E b1 \in {b \in ForgeDefaultBuilds : DistinctPaths(b.walk)} :
         \E w \in Reorderings(b1.walk) :
            /\ disk = Spread(BuildFiles(NormPath1, b1), BuildFiles(NormPath2, b1))
            /\ tree = [q \in {NormPath1, NormPath2} |->
                         IF q = NormPath1 THEN b1.walk ELSE w]
    /\ remote = EmptyStorage
    /\ push = [p \in Pushers |-> IdlePush]
    /\ local = EmptyCache
    /\ pull = IdlePull
    /\ calls = 0
    /\ norm = [NormOff EXCEPT !.pc = "start"]
    /\ look = LookOff
    /\ query = QueryIdle

SpecWalk == InitWalk /\ [][NextNorm]_vars

(***************************************************************************)
(* One pull, from any storage the pushes of the fixture builds produce and *)
(* any Local Cache earlier pulls have left.                                *)
(***************************************************************************)
PullTags == {"t1", TagNamedAsId}
PulledPaths == {PathA, PathC}

\* a whole push that succeeds, as one step
Pushed(S, project, path, tag) ==
    LET mapped == Normalize(path)
    IN  UploadArtifact(S, project, mapped.artifact, tag, mapped.originalContentPaths)

RECURSIVE PushedAll(_, _, _)
\* the builds of `paths` pushed without a tag, then the builds of `tagged`, each with
\* its tag
PushedAll(S, paths, tagged) ==
    IF paths # {}
    THEN LET path == CHOOSE q \in paths : TRUE
         IN  PushedAll(Pushed(S, "p1", path, NoTag), paths \ {path}, tagged)
    ELSE IF DOMAIN tagged # {}
    THEN LET tag == CHOOSE t \in DOMAIN tagged : TRUE
         IN  PushedAll(Pushed(S, "p1", tagged[tag], tag), {},
                       [t \in DOMAIN tagged \ {tag} |-> tagged[t]])
    ELSE S

\* the Local Caches pulls can have left when the storage is S: some of its ids, and
\* some of its tags, each with the document it resolves to or with the one it resolved
\* to before a forced push
Caches(S) ==
    {[setup |-> {k[1] : k \in ids} \cup {k[1] : k \in DOMAIN tags},
      ids |-> [k \in ids |-> S.ids[k]], tags |-> tags] :
        ids \in SUBSET DOMAIN S.ids,
        tags \in UNION {[keys -> {S.ids[k] : k \in DOMAIN S.ids}] :
                           keys \in SUBSET DOMAIN S.tags}}

InitPull ==
    /\ disk = FixtureDisk
    /\ tree = FixtureTree
    /\ \E paths \in SUBSET PulledPaths :
         \E tagged \in UNION {[tags -> paths] : tags \in SUBSET PullTags} :
            remote = PushedAll(EmptyStorage, paths, tagged)
    /\ push = [p \in Pushers |-> IdlePush]
    /\ local \in Caches(remote)
    /\ pull = IdlePull
    /\ calls = 0
    /\ norm = NormOff
    /\ look = LookOff
    /\ query = QueryIdle

PullTargetsOnce == PullTargets \cup {TagTarget(TagNamedAsId), IdTarget(IdB)}

\* pull is called, once
PullOnce ==
    /\ pull.pc = "idle"
    /\ \E project \in Projects, target \in PullTargetsOnce, force \in BOOLEAN :
         pull' = [IdlePull EXCEPT !.pc = "listing", !.project = project,
                                  !.target = target, !.force = force,
                                  !.hadTags = LocalTags(local, project),
                                  !.hadIds = LocalIds(local, project),
                                  !.had = local,
                                  !.no = calls + 1]
    /\ calls' = calls + 1
    /\ UNCHANGED <<disk, tree, remote, push, local, norm, look, query>>

NextPull == PullOnce \/ PullStep

SpecPull == InitPull /\ [][NextPull]_vars

\* every download and every store ends (resolves or rejects), and the event loop runs
\* what is ready
SpecPullFair == SpecPull /\ WF_vars(PullStep)

(***************************************************************************)
(* One call of the locator on a directory, in CI mode or not, with the     *)
(* answers of the user and the timer of the prompt.                        *)
(***************************************************************************)
\* JSON files next to the `build-info` directory
TopLevelJsonFiles ==
    << Dirent("a.json", TRUE, TRUE, TRUE, 1, 10, V2File),
       Dirent("b.json", TRUE, TRUE, TRUE, 2, 10, ForgeFile) >>

Directories ==
    {Directory(TRUE, l, TRUE, <<>>) : l \in Listings}
    \cup {Directory(FALSE, <<>>, TRUE, <<>>), Directory(TRUE, <<BuildInfoDirent>>, FALSE, <<>>)}
    \cup {Directory(TRUE, <<BuildInfoDirent>> \o decoy, TRUE, l) :
            l \in Listings,
            decoy \in {<<>>, TopLevelJsonFiles}}

InitLocate ==
    /\ disk \in {[q \in {LookPath} |-> d] : d \in Directories}
    /\ tree = <<>>
    /\ remote = EmptyStorage
    /\ push = [p \in Pushers |-> IdlePush]
    /\ local = EmptyCache
    /\ pull = IdlePull
    /\ calls = 0
    /\ norm = NormOff
    /\ look = [LookOff EXCEPT !.pc = "idle"]
    /\ query = QueryIdle

NextLocate ==
    \/ \E isCI \in BOOLEAN : LookCall(isCI)
    \/ \E answer \in Answers : PromptAnswer(answer)
    \/ PromptTimeout

SpecLocate == InitLocate /\ [][NextLocate]_vars

\* a timer that is armed fires
SpecLocateFair == SpecLocate /\ WF_vars(PromptTimeout)

\* A push that fails: at its first step over a directory (the locator and its
\* prompt), at its second step over the build outputs, or at any step over the
\* fixture files (one push after the other).
InitErrors == Init \/ InitNorm \/ InitLocate

NextErrors ==
    \/ /\ look.pc = "off" /\ norm.pc = "off"
       /\ \E p \in Pushers : (Quiet /\ PushCall(p)) \/ PushStep(p)
    \/ NextNorm
    \/ NextLocate

SpecErrors == InitErrors /\ [][NextErrors]_vars

(***************************************************************************)
(* The queries over the Local Cache: inspect, export and list.             *)
(* `target` is the tagOrId string in its two readings, as for pull.        *)
(***************************************************************************)
QueryProjects == {"p1", "p2"}

\* ensureProjectSetup: the folders of the project exist afterwards
EnsureLocalProjectSetup(L, project) == [L EXCEPT !.setup = @ \cup {project}]

\* listProjects: the project folders under the root of the Local Cache
ListProjects(L) ==
    L.setup \cup {k[1] : k \in DOMAIN L.ids} \cup {k[1] : k \in DOMAIN L.tags}

HasId(L, project, id) == <<project, id>> \in DOMAIN L.ids
HasTag(L, project, tag) == <<project, tag>> \in DOMAIN L.tags

\* Object.entries(output.contracts) as { sourcePath, contracts }
DeriveContractsBySource(artifact) ==
    {[sourcePath |-> s, contracts |-> DOMAIN artifact.output.contracts[s]] :
        s \in DOMAIN artifact.output.contracts}

InspectArtifact(project, target) ==
    /\ query.pc = "idle"
    /\ LET L == EnsureLocalProjectSetup(local, project)
           q == [query EXCEPT !.op = "inspect", !.project = project, !.target = target]
           isId == HasId(L, project, target.id)
           isTag == HasTag(L, project, target.tag)
           type == IF isTag THEN "tag" ELSE IF isId THEN "id" ELSE "none"
           artifact == IF type = "tag" THEN L.tags[<<project, target.tag>>]
                       ELSE L.ids[<<project, target.id>>]
       IN  /\ local' = L
           /\ query' =
                IF type = "none" THEN QueryThrown(q, "has not been found locally")
                ELSE QueryReturned(q,
                        [project |-> project,
                         tag |-> IF type = "tag" THEN target.tag ELSE NoTag,
                         id |-> artifact.id,
                         origin |-> artifact.origin,
                         solcLongVersion |-> artifact.solcLongVersion,
                         sourceFiles |-> DOMAIN artifact.input.sources,
                         contractsBySource |-> DeriveContractsBySource(artifact)])
    /\ UNCHANGED <<disk, tree, remote, push, pull, calls, norm, look>>

\* String.toLowerCase on the contract names of the model
ToLowerCase(name) ==
    CASE name = "A" -> "a"
      [] name = "B" -> "b"
      [] OTHER -> name

\* shortOrFullyQualifiedContractName.split(":")
ContractNames == {<<"A">>, <<"a">>, <<"B">>, <<"A.sol", "a">>, <<"A.sol", "B">>,
                  <<"B.sol", "A">>, <<"x", "y", "z">>}

\* search is { type: "tag", tag } or { type: "id", id }
ExportContractAbi(project, type, target, elements) ==
    /\ query.pc = "idle"
    /\ LET L == EnsureLocalProjectSetup(local, project)
           q == [query EXCEPT !.op = "export", !.project = project, !.target = target]
           found == IF type = "tag" THEN HasTag(L, project, target.tag)
                    ELSE HasId(L, project, target.id)
           artifact == IF type = "tag" THEN L.tags[<<project, target.tag>>]
                       ELSE L.ids[<<project, target.id>>]
           contracts == artifact.output.contracts
           matchingContracts ==
               {<<s, n>> \in UNION {{s} \X DOMAIN contracts[s] : s \in DOMAIN contracts} :
                   ToLowerCase(n) = ToLowerCase(elements[1])}
           matchingEntry ==
               {n \in DOMAIN contracts[elements[1]] :
                   ToLowerCase(n) = ToLowerCase(elements[2])}
           exported(s, n) ==
               QueryReturned(q, [project |-> project,
                                 tag |-> IF type = "tag" THEN target.tag ELSE NoTag,
                                 id |-> artifact.id,
                                 contract |-> [path |-> s, name |-> n,
                                               abi |-> contracts[s][n].abi]])
       IN  /\ local' = L
           /\ query' =
                IF ~found THEN QueryThrown(q, "Unable to retrieve the artifact content")
                ELSE IF Len(elements) = 1 THEN
                    IF matchingContracts = {} THEN QueryThrown(q, "No contract found")
                    ELSE IF Cardinality(matchingContracts) > 1
                    THEN QueryThrown(q, "Multiple contracts found")
                    ELSE LET c == CHOOSE c \in matchingContracts : TRUE
                         IN  exported(c[1], c[2])
                ELSE IF Len(elements) # 2 THEN QueryThrown(q, "Invalid contract name")
                ELSE IF elements[1] \notin DOMAIN contracts
                THEN QueryThrown(q, "No contracts found for source path")
                ELSE IF matchingEntry = {} THEN QueryThrown(q, "No contract found")
                ELSE exported(elements[1], CHOOSE n \in matchingEntry : TRUE)
    /\ UNCHANGED <<disk, tree, remote, push, pull, calls, norm, look>>

\* the rows of one project, and the ids visited once it is done
ProjectRows(L, project, idsAlreadyVisited) ==
    LET tagRows == {[Project |-> project, ID |-> L.tags[<<project, tag>>].id, Tag |-> tag] :
                        tag \in LocalTags(L, project)}
        visited == idsAlreadyVisited \cup {r.ID : r \in tagRows}
        idRows == {[Project |-> project, ID |-> id, Tag |-> NoTag] :
                        id \in LocalIds(L, project) \ visited}
    IN  [rows |-> tagRows \cup idRows, visited |-> visited \cup LocalIds(L, project)]

\* the loop over the projects, in the order listProjects gave them
RECURSIVE ArtifactRows(_, _, _)
ArtifactRows(L, projects, idsAlreadyVisited) ==
    IF projects = <<>> THEN {}
    ELSE LET first == ProjectRows(L, Head(projects), idsAlreadyVisited)
         IN  first.rows \cup ArtifactRows(L, Tail(projects), first.visited)

\* the orders in which listProjects may give the projects
Orders(projects) ==
    {o \in [1..Cardinality(projects) -> projects] :
        \A i, j \in DOMAIN o : i # j => o[i] # o[j]}

GenerateStructuredDataForArtifacts(projects) ==
    /\ query.pc = "idle"
    /\ projects \in Orders(ListProjects(local))
    /\ query' = [QueryReturned([query EXCEPT !.op = "list"], projects)
                    EXCEPT !.rows = ArtifactRows(local, projects, {})]
    /\ UNCHANGED <<disk, tree, remote, push, local, pull, calls, norm, look>>

(***************************************************************************)
(* One query on any Local Cache earlier pulls of two projects have left.   *)
(***************************************************************************)
DocA == Artifact(IdA, "b1", HARDHAT_V2_COMPILER_OUTPUT_FORMAT, "", "0.8.1", SolcInput("s1"),
                 SolcOutput(ContractsA, "none"))
DocB == Artifact(IdB, "b3", HARDHAT_V3_COMPILER_INPUT_FORMAT,
                 HARDHAT_V3_COMPILER_OUTPUT_FORMAT, "0.8.1", SolcInput("s1"),
                 SolcOutput(ContractsB, "none"))
DocOf(id) == IF id = IdA THEN DocA ELSE DocB

QueryTags == {"t1", TagNamedAsId}

QueryCaches ==
    {[setup |-> setup \cup {k[1] : k \in ids} \cup {k[1] : k \in DOMAIN tags},
      ids |-> [k \in ids |-> DocOf(k[2])], tags |-> tags] :
        setup \in SUBSET QueryProjects,
        ids \in SUBSET (QueryProjects \X {IdA, IdB}),
        tags \in UNION {[keys -> {DocA, DocB}] :
                           keys \in SUBSET (QueryProjects \X QueryTags)}}

QueryTargets == PullTargetsOnce \ {NoTarget}

InitQuery ==
    /\ disk = FixtureDisk
    /\ tree = FixtureTree
    /\ remote = EmptyStorage
    /\ push = [p \in Pushers |-> IdlePush]
    /\ local \in QueryCaches
    /\ pull = IdlePull
    /\ calls = 0
    /\ norm = NormOff
    /\ look = LookOff
    /\ query = QueryIdle

NextQuery ==
    \/ \E project \in QueryProjects, target \in QueryTargets :
          InspectArtifact(project, target)
    \/ \E project \in QueryProjects, type \in {"tag", "id"}, target \in QueryTargets,
          elements \in ContractNames :
          ExportContractAbi(project, type, target, elements)
    \/ \E projects \in UNION {Orders(P) : P \in SUBSET QueryProjects} :
          GenerateStructuredDataForArtifacts(projects)

SpecQuery == InitQuery /\ [][NextQuery]_vars

(***************************************************************************)
(* diff: the candidate build output at `path`, normalised as for push,     *)
(* against a reference artifact of the Local Cache.                        *)
(***************************************************************************)
\* the (sourcePath, contractName) pairs of output.contracts
ContractKeys(contracts) ==
    UNION {{<<s, n>> : n \in DOMAIN contracts[s]} : s \in DOMAIN contracts}

Difference(key, status) == [path |-> key[1], name |-> key[2], status |-> status]

\* the comparison of the two output.contracts
CompareContracts(candidate, reference) ==
    {Difference(k, "added") : k \in ContractKeys(candidate) \ ContractKeys(reference)}
    \cup {Difference(k, "removed") : k \in ContractKeys(reference) \ ContractKeys(candidate)}
    \cup {Difference(k, "changed") :
            k \in {k \in ContractKeys(candidate) \cap ContractKeys(reference) :
                      candidate[k[1]][k[2]] # reference[k[1]][k[2]]}}

\* a display whose "added" list takes every difference that is not a removal
DisplayDifferences_AddedOrChanged(differences) ==
    [none |-> differences = {},
     changed |-> {d \in differences : d.status = "changed"},
     added |-> {d \in differences : d.status # "removed"},
     removed |-> {d \in differences : d.status = "removed"}]

\* what displayDifferences prints: "No differences found", or the three lists
DisplayDifferences(differences) ==
    [none |-> differences = {},
     changed |-> {d \in differences : d.status = "changed"},
     added |-> {d \in differences : d.status = "added"},
     removed |-> {d \in differences : d.status = "removed"}]

DiffPath == Path("", "candidate", "json")

GenerateDiffWithTargetRelease(path, project, target) ==
    /\ query.pc = "idle"
    /\ LET q == [query EXCEPT !.op = "diff", !.project = project, !.target = target]
           mapped == Normalize(path)
           isTag == HasTag(local, project, target.tag)
           isId == HasId(local, project, target.id)
           reference == IF isTag THEN local.tags[<<project, target.tag>>]
                        ELSE local.ids[<<project, target.id>>]
       IN  query' =
             IF ~mapped.ok THEN QueryThrown(q, "the candidate could not be normalised")
             ELSE IF ~(isTag \/ isId) THEN QueryThrown(q, "has not been found locally")
             ELSE QueryReturned(q, DisplayDifferences(
                     CompareContracts(mapped.artifact.output.contracts,
                                      reference.output.contracts)))
    /\ UNCHANGED <<disk, tree, remote, push, local, pull, calls, norm, look>>

\* compiled outputs over three (sourcePath, contractName) pairs
DiffKeys == {<<"A.sol", "A">>, <<"A.sol", "A2">>, <<"B.sol", "B">>}
DiffContracts ==
    {[s \in {k[1] : k \in DOMAIN code} |->
        [n \in {k[2] : k \in {k \in DOMAIN code : k[1] = s}} |-> Compiled(code[<<s, n>>])]] :
        code \in UNION {[keys -> {"k1", "k2"}] : keys \in SUBSET DiffKeys}}

DiffDoc(contracts) ==
    EthokoArtifact("b1", HARDHAT_V2_COMPILER_OUTPUT_FORMAT, "", "0.8.1", SolcInput("s1"),
                   SolcOutput(contracts, "none"))

InitDiff ==
    /\ \E contracts \in DiffContracts, valid \in BOOLEAN :
          disk = [q \in {DiffPath} |->
                    JsonFile(HARDHAT_V2_COMPILER_OUTPUT_FORMAT, valid, "b9", "0.8.2",
                             SolcInput("s2"), SolcOutput(contracts, "none"), <<>>)]
    /\ tree = <<>>
    /\ remote = EmptyStorage
    /\ push = [p \in Pushers |-> IdlePush]
    /\ \E contracts \in DiffContracts :
          local \in {CreateArtifactByTag(EmptyCache, "p1", "t1", DiffDoc(contracts)),
                     CreateArtifactById(EmptyCache, "p1", DiffDoc(contracts).id,
                                        DiffDoc(contracts))}
    /\ pull = IdlePull
    /\ calls = 0
    /\ norm = NormOff
    /\ look = LookOff
    /\ query = QueryIdle

NextDiff ==
    \E target \in {TagTarget("t1"), TagTarget("t9")}
                  \cup {IdTarget(DiffDoc(c).id) : c \in DiffContracts} :
        GenerateDiffWithTargetRelease(DiffPath, "p1", target)

SpecDiff == InitDiff /\ [][NextDiff]_vars

(***************************************************************************)
(* Properties of push against the storage provider.                        *)
(***************************************************************************)
UploadPcs == {"ensure", "writeId", "copyTag", "copyOriginal"}
EarlyErrs == {"locate", "normalize", "check", "exists"}

\* the step taken is a step of push call p (and not the call itself)
StepOf(p) == push'[p] # push[p] /\ push'[p].no = push[p].no

\* C1: a push without force of a tag that exists when push is called never gets to
\* uploadArtifact nor returns an id; once the build was normalised and the tag check
\* answered it has failed with the "already exists" error; and no step of it changes
\* listIds, listTags or the id any tag resolves to.
C1_ExistingTagRejected ==
    /\ [](\A p \in Pushers :
            push[p].existed /\ ~push[p].force =>
              /\ push[p].pc \notin UploadPcs \cup {"done"}
              /\ push[p].uploads = 0 /\ push[p].writes = 0 /\ ~push[p].dirty
              /\ push[p].pc = "failed" => push[p].err \in EarlyErrs
              /\ push[p].tagFound # "unchecked" =>
                     push[p].pc = "failed" /\ push[p].err = "exists")
    /\ [][\A p \in Pushers :
            push[p].existed /\ ~push[p].force /\ StepOf(p) =>
              Listing(remote') = Listing(remote)]_vars

C1_Witness ==
    \E p \in Pushers :
        /\ push[p].pc = "failed" /\ push[p].err = "exists"
        /\ push[p].existed /\ ~push[p].force
        /\ push[p].tag \in ListTags(remote, push[p].project)

\* C2: a step that makes an existing tag resolve to another id is the tag write of a
\* push called with force.
C2_OnlyForceRepoints ==
    [][\A k \in DOMAIN remote.tags :
          remote'.tags[k].id # remote.tags[k].id =>
             \E p \in Pushers : StepOf(p) /\ push[p].pc = "copyTag" /\ push[p].force]_vars

\* C3: within one push uploadArtifact is called at most once, and only with the build
\* located and normalised and, when a tag is given, the tag check answered "absent"
\* or the push forced; storage writes are made only inside that call, and a push that
\* failed before it wrote nothing.
C3_UploadOnlyAfterChecks ==
    /\ [](\A p \in Pushers :
            /\ push[p].uploads <= 1
            /\ push[p].uploads = 1 =>
                 /\ push[p].located # {} /\ push[p].art # {}
                 /\ push[p].tag # NoTag =>
                      \/ push[p].tagFound = "absent"
                      \/ push[p].tagFound = "present" /\ push[p].force
            /\ push[p].writes > 0 \/ push[p].dirty => push[p].uploads = 1
            /\ push[p].pc \in UploadPcs \cup {"done"} => push[p].uploads = 1
            /\ push[p].pc = "failed" /\ push[p].err \in EarlyErrs =>
                 push[p].uploads = 0 /\ push[p].writes = 0)
    /\ [][\A p \in Pushers : StepOf(p) /\ push'[p].uploads = 0 => remote' = remote]_vars

C3_Witness ==
    \E p, q \in Pushers :
        /\ push[p].pc = "done" /\ push[p].uploads = 1 /\ push[p].tag # NoTag
        /\ push[p].writes >= 3
        /\ push[q].pc = "failed" /\ push[q].err = "normalize" /\ push[q].writes = 0

\* C4: when the latest call is a push that returned X, X is the id derived from the
\* output of the normalised artifact, the storage has an id-entry X, and the tag given
\* exists and resolves to a document of id X.
C4_ReturnedIdStored ==
    \A p \in Pushers :
        push[p].pc = "done" /\ push[p].no = calls =>
          /\ push[p].ret = {DeriveEthokoArtifactId(TheArt(p).output)}
          /\ \A X \in push[p].ret :
               /\ HasArtifactById(remote, push[p].project, X)
               /\ push[p].tag # NoTag =>
                    /\ HasArtifactByTag(remote, push[p].project, push[p].tag)
                    /\ remote.tags[<<push[p].project, push[p].tag>>].id = X

C4_Witness ==
    \E p \in Pushers :
        /\ push[p].pc = "done" /\ push[p].no = calls
        /\ push[p].tag # NoTag /\ push[p].existed /\ push[p].force
        /\ \E q \in Pushers : push[q].pc = "done" /\ push[q].tag = push[p].tag
                              /\ push[q].ret # push[p].ret

\* C5: a forced push of a tag that exists is not rejected by the tag check: when the
\* check answers, uploadArtifact is called; and when it returns after an earlier push
\* of the same tag with the same output, it returns the id that push returned.
C5_ForcePushSameId ==
    \A p \in Pushers :
        push[p].existed /\ push[p].force =>
          /\ push[p].err # "exists"
          /\ push[p].tagFound # "unchecked" => push[p].uploads = 1
          /\ \A q \in Pushers :
               /\ push[p].pc = "done" /\ push[q].pc = "done" /\ push[q].no < push[p].no
               /\ push[q].project = push[p].project /\ push[q].tag = push[p].tag
               /\ TheArt(q).output = TheArt(p).output
               => push[p].ret = push[q].ret

C5_Witness ==
    \E p, q \in Pushers :
        /\ push[p].existed /\ push[p].force /\ push[p].pc = "done"
        /\ push[q].pc = "done" /\ push[q].no < push[p].no
        /\ push[q].project = push[p].project /\ push[q].tag = push[p].tag
        /\ push[q].path = push[p].path

\* C6: a push that failed has changed nothing of listIds, listTags and the id every
\* tag resolves to.
C6_FailedPushLeavesNoEntry ==
    \A p \in Pushers : push[p].pc = "failed" => ~push[p].dirty

\* C7: no step changes the document of an id-entry that exists.
C7_IdEntryImmutable ==
    [][\A k \in DOMAIN remote.ids : remote'.ids[k] = remote.ids[k]]_vars

\* C8: the steps of an uploadArtifact that follows a completed uploadArtifact of the same
\* project, artifact, tag and original content paths all leave the storage (id-entries,
\* tag pointers, archive) as it is; and so does the whole call.
C8_UploadIdempotent ==
    /\ [](\A q \in Pushers :
            push[q].pc = "done" /\ push[q].no = calls =>
               UploadArtifact(remote, push[q].project, TheArt(q), push[q].tag,
                              push[q].orig) = remote)
    /\ [][\A p, q \in Pushers :
            /\ StepOf(p) /\ push[p].pc \in UploadPcs
            /\ push[q].pc = "done" /\ push[p].no = push[q].no + 1
            /\ push[q].project = push[p].project /\ push[q].tag = push[p].tag
            /\ push[q].art = push[p].art /\ push[q].orig = push[p].orig
            => remote' = remote]_vars

C8_Witness ==
    \E p, q \in Pushers :
        /\ push[p].pc = "done" /\ push[q].pc = "done" /\ push[p].no = push[q].no + 1
        /\ push[q].project = push[p].project /\ push[q].tag = push[p].tag
        /\ push[p].tag # NoTag
        /\ push[q].art = push[p].art /\ push[q].orig = push[p].orig
        /\ Len(push[p].orig) = 2

(***************************************************************************)
(* Properties of normalisation.                                            *)
(***************************************************************************)
\* C9: two build outputs of the same format that hold the same compiled output and
\* both normalise get the same output.contracts and the same id, whatever their input,
\* settings, origin id and compiler version; and two artifacts with the same
\* output.contracts have the same id.
C9_IdFromOutputOnly ==
    norm.pc = "done" /\ norm.r1.ok /\ norm.r2.ok =>
       /\ norm.r1.artifact.output.contracts = norm.r2.artifact.output.contracts
       /\ norm.r1.artifact.id = norm.r2.artifact.id

C9_Witness ==
    /\ norm.pc = "done" /\ norm.r1.ok /\ norm.r2.ok
    /\ norm.r1.artifact.origin.format = FORGE_COMPILER_DEFAULT_OUTPUT_FORMAT
    /\ DOMAIN norm.r1.artifact.output.contracts = {"A.sol", "B.sol"}
    /\ norm.r1.artifact.origin.id # norm.r2.artifact.origin.id
    /\ norm.r1.artifact.input.settings # norm.r2.artifact.input.settings
    /\ norm.r1.artifact.solcLongVersion # norm.r2.artifact.solcLongVersion

(***************************************************************************)
(* Properties of pull.                                                     *)
(***************************************************************************)
\* C10: a pull of a target that is neither a tag nor an id of the remote listing, once
\* the listing was read, has failed, with no download started and nothing written to
\* the Local Cache, whether forced or not.
C10_UnknownTargetFailsEarly ==
    /\ pull.target # NoTarget
    /\ pull.target.tag \notin ListTags(remote, pull.project)
    /\ pull.target.id \notin ListIds(remote, pull.project)
    /\ pull.pc \notin {"idle", "listing"}
    => /\ pull.pc = "failed" /\ pull.err \in {"listing", "notfound"}
       /\ pull.started = 0 /\ pull.writes = 0
       /\ pull.tagTask = <<>> /\ pull.idTask = <<>>

C10_Witness ==
    /\ pull.pc = "failed" /\ pull.err = "notfound" /\ pull.force
    /\ pull.target = TagTarget("t9")
    /\ ListTags(remote, pull.project) # {}
    /\ local = EmptyCache

\* the target of the pull as the remote listing resolves it: a tag, else an id
TargetIsTag == pull.target # NoTarget /\ pull.target.tag \in ListTags(remote, pull.project)
TargetIsId ==
    /\ pull.target # NoTarget /\ ~TargetIsTag
    /\ pull.target.id \in ListIds(remote, pull.project)

\* C11: in a pull without force no download-and-store task is made for a tag or id
\* that was in the Local Cache when pull was called, such a target is in none of the
\* four result sets, no step changes an entry the cache holds, and the pull of a single
\* cached tag or id ends with the four sets empty.
C11_CachedTargetsSkipped ==
    /\ [](~pull.force =>
            /\ DOMAIN pull.tagTask \cap pull.hadTags = {}
            /\ DOMAIN pull.idTask \cap pull.hadIds = {}
            /\ (pull.pulledTags \cup pull.failedTags) \cap pull.hadTags = {}
            /\ (pull.pulledIds \cup pull.failedIds) \cap pull.hadIds = {}
            /\ pull.pc = "done" /\ \/ TargetIsTag /\ pull.target.tag \in pull.hadTags
                                   \/ TargetIsId /\ pull.target.id \in pull.hadIds
               => /\ pull.started = 0 /\ pull.writes = 0
                  /\ pull.pulledTags = {} /\ pull.pulledIds = {}
                  /\ pull.failedTags = {} /\ pull.failedIds = {})
    /\ [][~pull.force =>
            /\ \A k \in DOMAIN local.tags :
                 k \in DOMAIN local'.tags /\ local'.tags[k] = local.tags[k]
            /\ \A k \in DOMAIN local.ids :
                 k \in DOMAIN local'.ids /\ local'.ids[k] = local.ids[k]]_vars

C11_Witness ==
    /\ pull.pc = "done" /\ ~pull.force /\ pull.target = NoTarget
    /\ "t1" \in pull.hadTags /\ "t1" \in pull.remoteTags
    /\ local.tags[<<pull.project, "t1">>] # remote.tags[<<pull.project, "t1">>]
    /\ pull.pulledIds # {}

\* C12: a forced pull makes a download-and-store task for every resolved target (the
\* tag or the id given, or every tag and id of the storage), cached or not; it reports
\* as pulled exactly the targets whose task succeeded, and the cache entry of each is
\* the document the storage holds.
C12_ForcedPullRefreshes ==
    pull.force /\ pull.pc \in {"tasks", "done"} =>
       /\ pull.target = NoTarget =>
            /\ DOMAIN pull.tagTask = ListTags(remote, pull.project)
            /\ DOMAIN pull.idTask = ListIds(remote, pull.project)
       /\ TargetIsTag => DOMAIN pull.tagTask = {pull.target.tag} /\ DOMAIN pull.idTask = {}
       /\ TargetIsId => DOMAIN pull.tagTask = {} /\ DOMAIN pull.idTask = {pull.target.id}
       /\ pull.pc = "done" =>
            /\ pull.pulledTags = {t \in DOMAIN pull.tagTask : pull.tagTask[t] = "done"}
            /\ pull.pulledIds = {i \in DOMAIN pull.idTask : pull.idTask[i] = "done"}
       /\ \A t \in DOMAIN pull.tagTask :
            pull.tagTask[t] = "done" =>
               /\ t \in LocalTags(local, pull.project)
               /\ local.tags[<<pull.project, t>>] = remote.tags[<<pull.project, t>>]
       /\ \A i \in DOMAIN pull.idTask :
            pull.idTask[i] = "done" =>
               /\ i \in LocalIds(local, pull.project)
               /\ local.ids[<<pull.project, i>>] = remote.ids[<<pull.project, i>>]

C12_Witness ==
    /\ pull.pc = "done" /\ pull.force
    /\ "t1" \in pull.hadTags /\ "t1" \in pull.pulledTags
    /\ pull.hadIds # {} /\ pull.hadIds \subseteq pull.pulledIds
    /\ local.tags[<<pull.project, "t1">>].id = IdB

\* the tasks of the pull that have not ended
TasksRunning ==
    {t \in DOMAIN pull.tagTask : pull.tagTask[t] \in {"download", "create"}}
    \cup {i \in DOMAIN pull.idTask : pull.idTask[i] \in {"download", "create"}}

C14_ResultSetsDisjoint ==
    pull.pc = "done" =>
       /\ pull.pulledTags \cap pull.failedTags = {}
       /\ pull.pulledIds \cap pull.failedIds = {}
       /\ (pull.pulledTags \cup pull.failedTags)
          \cap {IdText(i) : i \in pull.pulledIds \cup pull.failedIds} = {}
       /\ pull.pulledTags \cup pull.failedTags = DOMAIN pull.tagTask
       /\ pull.pulledIds \cup pull.failedIds = DOMAIN pull.idTask

\* C15: a pull without a target, when nothing is filtered out (the Local Cache was empty,
\* or the pull is forced), has a task for every tag and every id of the storage; when
\* the cache was empty and no task failed, pulledTags is the remote tag list, pulledIds
\* the remote id list, and the cache holds every tag and id with the document of the
\* storage.
C15_PullAllMirrorsRemote ==
    pull.target = NoTarget /\ pull.pc \in {"tasks", "done"}
    /\ (pull.force \/ (pull.hadTags = {} /\ pull.hadIds = {})) =>
       /\ DOMAIN pull.tagTask = ListTags(remote, pull.project)
       /\ DOMAIN pull.idTask = ListIds(remote, pull.project)
       /\ pull.pc = "done" /\ pull.hadTags = {} /\ pull.hadIds = {}
          /\ pull.failedTags = {} /\ pull.failedIds = {} =>
            /\ pull.pulledTags = pull.remoteTags
            /\ pull.pulledTags = ListTags(remote, pull.project)
            /\ pull.pulledIds = ListIds(remote, pull.project)
            /\ LocalTags(local, pull.project) = ListTags(remote, pull.project)
            /\ LocalIds(local, pull.project) = ListIds(remote, pull.project)
            /\ \A t \in pull.remoteTags :
                 local.tags[<<pull.project, t>>] = remote.tags[<<pull.project, t>>]
            /\ \A i \in pull.remoteIds :
                 local.ids[<<pull.project, i>>] = remote.ids[<<pull.project, i>>]

C15_Witness ==
    /\ pull.target = NoTarget /\ pull.pc = "done" /\ ~pull.force
    /\ pull.hadTags = {} /\ pull.hadIds = {}
    /\ pull.failedTags = {} /\ pull.failedIds = {}
    /\ pull.pulledTags = PullTags
    /\ Cardinality(pull.pulledIds) = 2
    /\ local.tags[<<pull.project, "t1">>].id # local.tags[<<pull.project, TagNamedAsId>>].id

(***************************************************************************)
(* Properties of push followed by pull.                                    *)
(***************************************************************************)
\* the internal id of the build-info file push p was given
SourceId(p) ==
    LET b == CHOOSE b \in push[p].located : TRUE
    IN  IF b.format = "hardhat-v3" THEN ReadDisk(b.inputPath).id ELSE ReadDisk(b.path).id

\* C16: when a push returned X and the next call is a pull that reports X (or the tag
\* of the push) as pulled, the Local Cache has the id (the tag), and the artifact cached
\* has id X and as origin.id the internal id of the build-info file that was pushed.
C16_PulledIsPushed ==
    \A p \in Pushers :
        push[p].pc = "done" /\ pull.pc = "done" /\ pull.no = push[p].no + 1 =>
           \A X \in push[p].ret :
              /\ X \in pull.pulledIds =>
                   /\ X \in LocalIds(local, pull.project)
                   /\ local.ids[<<pull.project, X>>].id = X
                   /\ local.ids[<<pull.project, X>>].origin.id = SourceId(p)
              /\ push[p].tag \in pull.pulledTags =>
                   /\ push[p].tag \in LocalTags(local, pull.project)
                   /\ local.tags[<<pull.project, push[p].tag>>].id = X
                   /\ local.tags[<<pull.project, push[p].tag>>].origin.id = SourceId(p)

C16_Witness ==
    \E p \in Pushers :
        /\ push[p].pc = "done" /\ pull.pc = "done" /\ pull.no = push[p].no + 1
        /\ push[p].tag = NoTag /\ push[p].path = PathA
        /\ pull.target = IdTarget(IdA) /\ pull.pulledIds = push[p].ret
        /\ local.ids[<<pull.project, IdA>>].origin.id = "b1"

\* a visited per-contract file matching the manifest entry (id, path): it
\* parses, has one compilation target, and carries that id and that path
MatchedBy(walk, id, path) ==
    \E i \in 1..Len(walk) :
        /\ walk[i].file.parses
        /\ DOMAIN walk[i].file.compilationTarget = {path}
        /\ walk[i].file.id = id

UnmatchedEntries(manifest, walk) ==
    {<<manifest[id], id>> : id \in {i \in DOMAIN manifest : ~MatchedBy(walk, i, manifest[i])}}

\* C17: the forge-default reconstruction returns an artifact only if every
\* (id, path) entry of the manifest was matched by a visited per-contract
\* file; otherwise it throws, its error lists exactly the unmatched
\* (path, id) pairs, and no artifact is returned.
C17_ForgeNeedsEveryManifestEntry ==
    (norm.pc = "done" /\ norm.f1 # ForgeNotCalled) =>
        LET manifest == ReadDisk(NormPath1).source_id_to_path
            missing == UnmatchedEntries(manifest, Get(tree, NormPath1))
        IN  /\ norm.f1.ok => missing = {}
            /\ missing # {} =>
                  /\ ~norm.f1.ok
                  /\ norm.f1.pathsNotVisited = missing
                  /\ norm.f1.artifact = NoArtifact
                  /\ ~norm.r1.ok /\ norm.r1.artifact = NoArtifact

\* a two-entry manifest, one entry matched and the other met only by a file
\* with the right id and another path: the reconstruction throws naming it
C17_Witness ==
    /\ norm.pc = "done"
    /\ ~norm.f1.ok
    /\ norm.f1.pathsNotVisited = {<<"B.sol", "1">>}
    /\ \E i \in 1..Len(Get(tree, NormPath1)) : Get(tree, NormPath1)[i].file.id = "1"

\* C18: normalising a hardhat-v3 build output whose input piece and output
\* piece carry different ids fails and produces no artifact; an artifact is
\* produced only when the two ids are equal.
C18_HardhatV3IdsMustMatch ==
    LET found == LookForBuildInfoJsonFile(NormPath1)
    IN  (norm.pc = "done" /\ found.ok /\ found.value.format = "hardhat-v3") =>
            LET in == ReadDisk(found.value.inputPath)
                out == ReadDisk(found.value.outputPath)
            IN  /\ in.id # out.id => ~norm.r1.ok /\ norm.r1.artifact = NoArtifact
                /\ norm.r1.ok => in.id = out.id

\* two valid pieces with different ids were normalised, and it failed
C18_Witness ==
    LET found == LookForBuildInfoJsonFile(NormPath1)
    IN  /\ norm.pc = "done"
        /\ found.ok /\ found.value.format = "hardhat-v3"
        /\ ReadDisk(found.value.inputPath).valid
        /\ ReadDisk(found.value.outputPath).valid
        /\ ReadDisk(found.value.inputPath).id # ReadDisk(found.value.outputPath).id
        /\ ~norm.r1.ok

\* the JSON files the locator considers in the directory at LookPath
CandidateJsonFiles ==
    LET dir == ReadDisk(LookPath)
        inner == \E i \in 1..Len(dir.entries) :
                    ~dir.entries[i].isFile /\ dir.entries[i].name = "build-info"
    IN  SelectSeq(IF inner THEN dir.buildInfo ELSE dir.entries,
                  LAMBDA e : e.isFile /\ e.json)

Prompted == look.readlines = 1
PromptSettled == Prompted /\ look.pc \in {"returned", "thrown"}

\* the last answer handled is a number between 1 and the number of options
AnswerInRange ==
    /\ look.answer # NoAnswer
    /\ ~ParseInt(look.answer).nan
    /\ ParseInt(look.answer).n \in 1..Len(look.options)

\* C20: the selection prompt settles exactly once whatever the order of the
\* answers and of the timer: with the chosen option when a number between 1
\* and the number of options is entered before the timeout, and otherwise
\* with the timeout error; no option is returned after the timeout, and
\* readline.close() is called exactly once on every path.
C20_PromptSettlesOnce ==
    /\ [](Prompted => look.closes <= 1)
    /\ [](PromptSettled => look.closes = 1 /\ look.isClosed)
    /\ []((Prompted /\ look.pc = "returned") =>
            /\ AnswerInRange /\ ~look.late /\ ~look.isTimedOut
            /\ look.value = look.options[ParseInt(look.answer).n].value)
    /\ []((Prompted /\ AnswerInRange /\ ~look.late) => look.pc = "returned")
    /\ []((Prompted /\ look.pc = "thrown") =>
            look.isTimedOut /\ look.error = "User selection timed out")
    /\ [](look.isTimedOut => look.pc = "thrown")
    /\ [][PromptSettled =>
            /\ look'.pc = look.pc /\ look'.value = look.value
            /\ look'.error = look.error /\ look'.closes = look.closes]_vars
    /\ (look.pc = "prompt") ~> PromptSettled

\* the timer fired after an answer out of range: the prompt threw, closed once
C20_Witness ==
    /\ PromptSettled /\ look.pc = "thrown" /\ look.isTimedOut
    /\ look.warned >= 1 /\ look.closes = 1

\* C21: inspect, export and list are read-only on the Local Cache: whether
\* the call succeeds or fails, the projects, the tags, the ids and every
\* stored document of the Local Cache are the same after it as before.
C21_QueriesReadOnly ==
    [][query'.op \in {"inspect", "export", "list"} =>
          /\ ListProjects(local') = ListProjects(local)
          /\ local'.ids = local.ids
          /\ local'.tags = local.tags]_vars

\* the candidate and the reference output.contracts of a diff that returned
Candidate == Normalize(DiffPath).artifact.output.contracts
Reference ==
    IF HasTag(local, "p1", query.target.tag)
    THEN local.tags[<<"p1", query.target.tag>>].output.contracts
    ELSE local.ids[<<"p1", query.target.id>>].output.contracts
Reported(list, key) == \E d \in list : d.path = key[1] /\ d.name = key[2]

C23_ListShowsEveryArtifact ==
    (query.pc = "done" /\ query.op = "list" /\ query.ok) =>
        \A project \in ListProjects(local) :
            /\ \A id \in LocalIds(local, project) :
                  \E r \in query.rows : r.Project = project /\ r.ID = id
            /\ \A tag \in LocalTags(local, project) :
                  \E r \in query.rows :
                      /\ r.Project = project /\ r.Tag = tag
                      /\ r.ID = local.tags[<<project, tag>>].id

\* the candidate JSON files are one hardhat-v3 input piece and its output piece
HardhatV3Pair ==
    /\ Len(CandidateJsonFiles) = 2
    /\ {CandidateJsonFiles[i].name : i \in 1..2} = {"v3.json", "v3.output.json"}

\* C24: locating the build output from a directory whose build-info folder
\* holds exactly one hardhat-v3 input piece and its matching output piece
\* resolves to that hardhat-v3 pair without asking the user to choose, so
\* that pushing the directory succeeds.
C24_HardhatV3PairLocated ==
    (look.pc \notin {"off", "idle"} /\ HardhatV3Pair) =>
        /\ look.pc = "returned"
        /\ look.value.format = "hardhat-v3"
        /\ look.readlines = 0

\* C25: every failure of push reaches the caller as a CliError: the error push
\* throws at the tag check, the tag collision or the upload, the error of the
\* locator (its prompt included) and the error of the normalization that push
\* throws again unchanged are all of class CliError, never a plain Error.
C25_PushFailsWithCliError ==
    /\ \A p \in Pushers : push[p].pc = "failed" => push[p].errClass = CliError
    /\ look.pc = "thrown" => look.errorClass = CliError
    /\ norm.pc = "done" =>
          \A r \in {norm.r1, norm.r2} : ~r.ok => r.error = CliError

\* the prompt timed out, selectionPromise then rejected with its plain Error,
\* and the call still threw the CliError of the timeout
C25_Witness ==
    /\ look.pc = "thrown"
    /\ look.isTimedOut
    /\ look.selection = "rejected"
    /\ look.errorClass = CliError

\* a candidate file the reconstruction passes over: it does not parse, it has
\* zero or several compilation targets, or its (id, path) is not a manifest entry
SkippedFile(manifest, entry) ==
    LET targets == entry.file.compilationTarget
    IN  \/ ~entry.file.parses
        \/ Cardinality(DOMAIN targets) # 1
        \/ entry.file.id \notin DOMAIN manifest
        \/ manifest[entry.file.id] \notin DOMAIN targets

WithoutSkipped(manifest, walk) ==
    LET Kept(entry) == ~SkippedFile(manifest, entry)
    IN  SelectSeq(walk, Kept)

\* the forge-default builds among the two normalised, with what the mapper got
ForgeRuns ==
    {r \in {[path |-> NormPath1, result |-> norm.f1],
             [path |-> NormPath2, result |-> norm.f2]} : r.result # ForgeNotCalled}

\* C26: in the forge-default reconstruction a candidate file that does not
\* parse, has zero or several compilation targets, or whose (id, path) is not a
\* manifest entry is passed over without failing and contributes nothing: the
\* reconstruction returns or throws exactly what it does over the walk without
\* those files (same contracts, settings, sources, libraries, original-content
\* paths and visited pairs).
C26_SkippedFilesContributeNothing ==
    norm.pc = "done" =>
        \A r \in ForgeRuns :
            LET json == ReadDisk(r.path)
            IN  r.result = ForgeArtifactsToEthokoArtifact(
                               json, WithoutSkipped(json.source_id_to_path, tree[r.path]))

\* a reconstruction that succeeded over a walk holding a file that does not parse
C26_Witness ==
    /\ norm.pc = "done"
    /\ norm.f1.ok
    /\ \E i \in DOMAIN tree[NormPath1] : ~tree[NormPath1][i].file.parses
    /\ \E i \in DOMAIN tree[NormPath1] :
          ~SkippedFile(ReadDisk(NormPath1).source_id_to_path, tree[NormPath1][i])

\* the files of the walk the reconstruction takes, in the order visited
KeptWalk(r) == WithoutSkipped(ReadDisk(r.path).source_id_to_path, tree[r.path])

\* C27: when the forge-default walk visits two files that claim the same
\* (internal id, path) pair, the first one visited wins: the contract entry of
\* the reconstructed artifact is the one of the first file, and the compiler
\* settings, taken from the first file visited, are not replaced by the later one.
C27_FirstVisitedWins ==
    norm.pc = "done" =>
        \A r \in ForgeRuns :
            r.result.ok =>
                LET walk == KeptWalk(r)
                    output == r.result.artifact.output.contracts
                    input == r.result.artifact.input
                IN  \A i, j \in DOMAIN walk :
                        /\ i < j
                        /\ walk[i].file.id = walk[j].file.id
                        /\ walk[i].file.compilationTarget = walk[j].file.compilationTarget
                        /\ \A h \in 1..(i - 1) : walk[h].file.id # walk[i].file.id
                        => LET contractPath ==
                                   CHOOSE sp \in DOMAIN walk[i].file.compilationTarget : TRUE
                               contractName == walk[i].file.compilationTarget[contractPath]
                           IN  /\ output[contractPath][contractName]
                                      = SolcContract(walk[i].file)
                               /\ i = 1 => input.settings = {walk[i].file.settings}

\* C28: normalization is deterministic: the same build output normalised twice
\* yields the same output.contracts and the same id, whatever the order in
\* which the walk of the forge artifacts folder yields the per-contract files.
C28_NormalizationDeterministic ==
    norm.pc = "done" =>
        /\ norm.r1.ok = norm.r2.ok
        /\ norm.r1.ok =>
              /\ norm.r1.artifact.output.contracts = norm.r2.artifact.output.contracts
              /\ norm.r1.artifact.id = norm.r2.artifact.id

\* displayPullResults reports "You're up to date": the remote listing is not
\* empty and the four result sets are
UpToDate ==
    /\ pull.pc = "done"
    /\ ~(pull.remoteTags = {} /\ pull.remoteIds = {})
    /\ pull.failedTags = {} /\ pull.failedIds = {}
    /\ pull.pulledTags = {} /\ pull.pulledIds = {}

\* C29: whenever a pull of a project returns with nothing pulled and nothing
\* failed against a non-empty remote listing (reported as "up to date"), every
\* tag of the remote listing resolves in the Local Cache to the artifact id it
\* resolves to on the storage, also after a forced push overwrote the tag.
C29_UpToDateMeansSameIds ==
    UpToDate /\ pull.target = NoTarget =>
        \A tag \in pull.remoteTags :
            /\ HasTag(local, pull.project, tag)
            /\ local.tags[<<pull.project, tag>>].id = remote.tags[<<pull.project, tag>>].id

\* the Local Cache L after the documents of `tags` and `ids` of the storage
\* were stored in it, in any order
RECURSIVE Stored(_, _, _, _)
Stored(L, project, tags, ids) ==
    IF tags # {}
    THEN LET t == CHOOSE x \in tags : TRUE
         IN  Stored(CreateArtifactByTag(L, project, t, remote.tags[<<project, t>>]),
                    project, tags \ {t}, ids)
    ELSE IF ids # {}
    THEN LET i == CHOOSE x \in ids : TRUE
         IN  Stored(CreateArtifactById(L, project, i, remote.ids[<<project, i>>]),
                    project, tags, ids \ {i})
    ELSE L

\* the tasks that have stored their document
DoneTags == {t \in DOMAIN pull.tagTask : pull.tagTask[t] = "done"}
DoneIds == {i \in DOMAIN pull.idTask : pull.idTask[i] = "done"}

\* a step of one task: the only task that moves, and the only Local Cache
\* entry written is its own
OwnEntryOnly ==
    pull.pc = "tasks" /\ pull'.pc = "tasks" =>
        \/ \E t \in DOMAIN pull.tagTask :
             /\ pull' = [pull EXCEPT !.tagTask[t] = pull'.tagTask[t],
                                     !.writes = pull'.writes]
             /\ \/ local' = local
                \/ local' = [local EXCEPT !.tags = Put(@, <<pull.project, t>>,
                                                      local'.tags[<<pull.project, t>>])]
        \/ \E i \in DOMAIN pull.idTask :
             /\ pull' = [pull EXCEPT !.idTask[i] = pull'.idTask[i],
                                     !.writes = pull'.writes]
             /\ \/ local' = local
                \/ local' = [local EXCEPT !.ids = Put(@, <<pull.project, i>>,
                                                     local'.ids[<<pull.project, i>>])]

\* C30: the per-target tasks of one pull write to pairwise distinct Local Cache
\* entries and share no state: each step moves one task and writes at most
\* that task's entry; so, whatever the interleaving and the order of
\* completion, the Local Cache is at every moment the one pull found plus the
\* documents of the tasks that stored theirs, and the pulled and failed sets
\* returned are the tasks that stored theirs and the tasks that did not.
C30_TasksIndependent ==
    /\ [](pull.pc \in {"tasks", "done"} =>
            /\ local = Stored(pull.had, pull.project, DoneTags, DoneIds)
            /\ pull.pc = "done" =>
                  /\ pull.pulledTags = DoneTags
                  /\ pull.pulledIds = DoneIds
                  /\ pull.failedTags = DOMAIN pull.tagTask \ DoneTags
                  /\ pull.failedIds = DOMAIN pull.idTask \ DoneIds)
    /\ [][OwnEntryOnly]_vars

\* a pull returned after a tag task and an id task stored their documents and
\* another task failed
C30_Witness ==
    /\ pull.pc = "done"
    /\ pull.pulledTags # {} /\ pull.pulledIds # {}
    /\ pull.failedTags \cup pull.failedIds # {}
    /\ local # pull.had

====
